---------------------------- MODULE Spec2Model ----------------------------
(***************************************************************************)
(* MHive incident pipeline: the similarity scorer and the relation graph   *)
(* builder of scripts/generate_relations.py, and the merge stage of        *)
(* scripts/merge_master_data.py, and the step runner of                    *)
(* scripts/run_pipeline.py.                                                *)
(*                                                                         *)
(* A Python str is a sequence of characters.  A Hangul syllable is one     *)
(* character, written here as its romanisation ("han", "guk"; a syllable   *)
(* whose romanisation is one letter carries a trailing underscore, "i_"),  *)
(* so that it is never equal to an ASCII letter.  A Python list is a       *)
(* sequence, a dict a function on its keys; dict.get(k, d) is Get.         *)
(* Scores are the integers the float scores of the code always are.        *)
(***************************************************************************)
EXTENDS Integers, Sequences, FiniteSets, TLC

VARIABLES
    pc,                 \* the statement the running script is at
    incidents,          \* generate_relations.py: the corpus read by main
    relations,          \* generate_relations: the scored list, sorted
    rel_idx,            \* generate_relations: position of the greedy loop
    connection_count,   \* generate_relations: accepted degree per id
    filtered_relations, \* generate_relations: the accepted edges
    output_relations,   \* generate_relations.py main: the list written out
    pair,               \* scorer harness: the two incidents scored
    forward,            \* scorer harness: calculate_similarity_score(a, b)
    backward,           \* scorer harness: calculate_similarity_score(b, a)
    parsed_date,        \* parse_year: the string it is given
    parsed_year,        \* parse_year: what it returned
    source_data,        \* merge_master_data.py: the records of each source file
    src_idx,            \* main: position of the loop over DATA_SOURCES
    all_incidents,      \* main: the normalized records
    merged,             \* main: the merged corpus
    inc_idx,            \* calculate_relations: incidents done by the main loop
    scores,             \* calculate_relations: scores of the incident at hand
    master_file,        \* main: what master_incidents.json holds
    ts_file,            \* main: what lib/data.ts holds
    args,               \* run_pipeline.py main: the parsed command line
    all_steps,          \* run_pipeline.py main: the scripts to run, in order
    step_idx,           \* run_pipeline.py main: position of the loop over all_steps
    ran,                \* run_script: the scripts run so far, with their return codes
    exit_code           \* run_pipeline.py: what main returned

graph_vars == <<incidents, relations, rel_idx, connection_count,
                filtered_relations, output_relations>>
score_vars == <<pair, forward, backward, parsed_date, parsed_year>>
merge_vars == <<source_data, src_idx, all_incidents, merged, inc_idx, scores,
                master_file, ts_file>>
run_vars == <<args, all_steps, step_idx, ran, exit_code>>
vars == <<pc, graph_vars, score_vars, merge_vars, run_vars>>

----------------------------------------------------------------------------
(* Python built-ins *)

None == [none |-> TRUE]

Get(d, k, default) == IF k \in DOMAIN d THEN d[k] ELSE default

\* truth value of an optional dict: None and {} are false
Truthy(d) == d # None /\ DOMAIN d # {}

UpperCase == <<"A", "B", "C", "D", "E", "F", "G", "H", "I", "J", "K", "L", "M",
               "N", "O", "P", "Q", "R", "S", "T", "U", "V", "W", "X", "Y", "Z">>
LowerCase == <<"a", "b", "c", "d", "e", "f", "g", "h", "i", "j", "k", "l", "m",
               "n", "o", "p", "q", "r", "s", "t", "u", "v", "w", "x", "y", "z">>

LowerChar(c) ==
    IF \E i \in DOMAIN UpperCase : UpperCase[i] = c
    THEN LowerCase[CHOOSE i \in DOMAIN UpperCase : UpperCase[i] = c]
    ELSE c

\* str.lower()
lower(s) == [i \in 1..Len(s) |-> LowerChar(s[i])]

\* kw in s, for two strings
Contains(kw, s) ==
    \E i \in 0..(Len(s) - Len(kw)) : \A j \in 1..Len(kw) : s[i + j] = kw[j]

\* s.startswith(p)
StartsWith(s, p) == Len(p) <= Len(s) /\ \A j \in 1..Len(p) : s[j] = p[j]

\* s[:n]
Prefix(s, n) == SubSeq(s, 1, IF n < Len(s) THEN n ELSE Len(s))

\* s.split(sep) for a one-character sep: the pieces between the separators
RECURSIVE Split(_, _)
Split(s, sep) ==
    IF \A i \in 1..Len(s) : s[i] # sep
    THEN <<s>>
    ELSE LET i == CHOOSE n \in 1..Len(s) :
                      s[n] = sep /\ \A m \in 1..(n - 1) : s[m] # sep
         IN  <<SubSeq(s, 1, i - 1)>> \o Split(SubSeq(s, i + 1, Len(s)), sep)

Digits == <<"0", "1", "2", "3", "4", "5", "6", "7", "8", "9">>

IsDigit(c) == \E d \in DOMAIN Digits : Digits[d] = c

DigitVal(c) == (CHOOSE d \in DOMAIN Digits : Digits[d] = c) - 1

\* int(s): an optional sign and a run of decimal digits; anything else raises
\* ValueError (blanks and underscores do not occur in the strings modelled)
Unsigned(s) == IF Len(s) > 0 /\ s[1] \in {"-", "+"} THEN Tail(s) ELSE s

IntParses(s) ==
    Len(Unsigned(s)) > 0 /\ \A i \in 1..Len(Unsigned(s)) : IsDigit(Unsigned(s)[i])

RECURSIVE NatOf(_)
NatOf(s) ==
    IF Len(s) = 0 THEN 0
    ELSE 10 * NatOf(SubSeq(s, 1, Len(s) - 1)) + DigitVal(s[Len(s)])

IntOf(s) == IF s[1] = "-" THEN -NatOf(Unsigned(s)) ELSE NatOf(Unsigned(s))

\* sep.join(parts)
RECURSIVE Join(_, _)
Join(sep, parts) ==
    IF Len(parts) = 0 THEN <<>>
    ELSE IF Len(parts) = 1 THEN parts[1]
    ELSE parts[1] \o sep \o Join(sep, Tail(parts))

\* str(a list of strings): "['a', 'b']"
StrOfList(l) ==
    <<"[">> \o Join(<<",", " ">>, [i \in 1..Len(l) |-> <<"'">> \o l[i] \o <<"'">>])
            \o <<"]">>

\* set(a list)
SetOf(l) == {l[i] : i \in 1..Len(l)}

\* the orders in which iterating a set can yield its elements
SetOrders(S) ==
    {o \in [1..Cardinality(S) -> S] : \A i, j \in 1..Cardinality(S) :
                                          o[i] = o[j] => i = j}

Min(a, b) == IF a <= b THEN a ELSE b
Max(a, b) == IF a >= b THEN a ELSE b
Abs(a) == IF a >= 0 THEN a ELSE -a

----------------------------------------------------------------------------
(* generate_relations.py: parse_year, get_region *)

\* a parse_year without the branch for a leading '-'
parse_year_unsigned(date_str) ==
    LET part == Split(date_str, "-")[1]
    IN  IF IntParses(part) THEN IntOf(part) ELSE 2000

parse_year(date_str) ==
    IF StartsWith(date_str, <<"-">>)
    THEN LET part == Split(date_str, "-")[2]
         IN  IF IntParses(part) THEN -IntOf(part) ELSE 2000
    ELSE LET part == Split(date_str, "-")[1]
         IN  IF IntParses(part) THEN IntOf(part) ELSE 2000

\* the keyword table of get_region, in the order the dict lists it
regions ==
   <<
      <<<<"han", "guk">>,
        <<<<"han", "guk">>,
          <<"seo", "ul">>,
          <<"bu", "san">>,
          <<"dae", "gu">>,
          <<"in", "cheon">>,
          <<"gwang", "ju">>,
          <<"dae", "jeon">>,
          <<"ul", "san">>,
          <<"jin", "do">>,
          <<"hwa", "seong">>>>>>,
      <<<<"il", "bon">>,
        <<<<"il", "bon">>,
          <<"do", "kyo">>,
          <<"o_", "sa", "ka">>,
          <<"hu", "ku", "si", "ma">>,
          <<"do", "ho", "ku">>>>>>,
      <<<<"jung", "guk">>,
        <<<<"jung", "guk">>,
          <<"be", "i_", "jing">>,
          <<"sang", "ha", "i_">>,
          <<"nan", "jing">>,
          <<"tang", "san">>,
          <<"sseu", "chwan">>>>>>,
      <<<<"mi", "guk">>,
        <<<<"mi", "guk">>,
          <<"nyu", "yok">>,
          <<"wo", "sing", "teon">>,
          <<"kael", "ri", "po", "ni", "a_">>,
          <<"tek", "sa", "seu">>,
          <<"ro", "seu", "aen", "jel", "re", "seu">>,
          <<"nyu", "jeo", "ji">>,
          <<"o_", "keul", "ra", "ho", "ma">>,
          <<"ne", "ba", "da">>,
          <<"nyu", "mek", "si", "ko">>>>>>,
      <<<<"yu", "reop">>,
        <<<<"yeong", "guk">>,
          <<"peu", "rang", "seu">>,
          <<"dok", "il">>,
          <<"seu", "pe", "in">>,
          <<"i_", "tal", "ri", "a_">>,
          <<"reon", "deon">>,
          <<"pa", "ri">>,
          <<"ma", "deu", "ri", "deu">>,
          <<"ni", "seu">>,
          <<"bo", "seu", "ni", "a_">>>>>>,
      <<<<"dong", "nam", "a_">>,
        <<<<"in", "do", "ne", "si", "a_">>,
          <<"tae", "guk">>,
          <<"be", "teu", "nam">>,
          <<"pil", "ri", "pin">>,
          <<"mal", "re", "i_", "si", "a_">>,
          <<"seu", "ri", "rang", "ka">>>>>>,
      <<<<"jung", "dong">>,
        <<<<"i_", "ran">>,
          <<"i_", "ra", "keu">>,
          <<"si", "ri", "a_">>,
          <<"re", "ba", "non">>,
          <<"twi", "reu", "ki", "ye">>,
          <<"be", "i_", "ru", "teu">>,
          <<"te", "he", "ran">>>>>>,
      <<<<"a_", "peu", "ri", "ka">>,
        <<<<"reu", "wan", "da">>,
          <<"i_", "jip", "teu">>,
          <<"nam", "a_", "peu", "ri", "ka">>>>>>,
      <<<<"nam", "mi">>,
        <<<<"beu", "ra", "jil">>,
          <<"pe", "ru">>,
          <<"chil", "re">>,
          <<"a_", "i_", "ti">>>>>>,
      <<<<"reo", "si", "a_">>,
        <<<<"reo", "si", "a_">>,
          <<"so", "ryeon">>,
          <<"u_", "keu", "ra", "i_", "na">>,
          <<"u_", "ral">>,
          <<"sa", "hal", "rin">>>>>>,
      <<<<"in", "do">>,
        <<<<"in", "do">>,
          <<"mum", "ba", "i_">>,
          <<"bo", "pal">>,
          <<"bang", "geul", "ra", "de", "si">>>>>>,
      <<<<"kam", "bo", "di", "a_">>,
        <<<<"kam", "bo", "di", "a_">>>>>>,
      <<<<"dae", "yang">>,
        <<<<"dae", "seo", "yang">>,
          <<"tae", "pyeong", "yang">>,
          <<"in", "do", "yang">>,
          <<"buk", "dae", "seo", "yang">>>>>>
   >>

other_region == <<"gi", "ta">>   \* the region of a location no keyword matches

RECURSIVE FirstRegion(_, _)
FirstRegion(rs, location_lower) ==
    IF Len(rs) = 0 THEN other_region
    ELSE IF \E n \in 1..Len(rs[1][2]) : Contains(lower(rs[1][2][n]), location_lower)
    THEN rs[1][1]
    ELSE FirstRegion(Tail(rs), location_lower)

get_region(location) == FirstRegion(regions, lower(location))

\* the strings the incidents below are drawn from
tag_earthquake == <<"ji", "jin">>
tag_tsunami == <<"sseu", "na", "mi">>
tag_large == <<"dae", "gyu", "mo">>
tag_nuclear_accident == <<"won", "jeon", "sa", "go">>
tag_aviation == <<"hang", "gong">>
tag_sinking == <<"chim", "mol">>
tag_serial == <<"yeon", "swae", "sal", "in">>

date_2011 == <<"2", "0", "1", "1", "-", "0", "3", "-", "1", "1">>
date_2014 == <<"2", "0", "1", "4", "-", "0", "4", "-", "1", "6">>
date_2013 == <<"2", "0", "1", "3", "-", "0", "5", "-", "0", "1">>
date_2001 == <<"2", "0", "0", "1", "-", "0", "9", "-", "1", "1">>
date_1995 == <<"1", "9", "9", "5">>
date_1889 == <<"1", "8", "8", "9", "-", "0", "5", "-", "3", "1">>
date_bce == <<"-", "0", "0", "4", "4", "-", "0", "3", "-", "1", "5">>
date_empty == <<>>
tokyo_japan == <<"T", "o", "k", "y", "o", ",", " ", "J", "a", "p", "a", "n">>
sendai_japan == <<"S", "e", "n", "d", "a", "i", ",", " ", "J", "a", "p", "a", "n">>
ilbon_dokyo == <<"il", "bon", " ", "do", "kyo">>
seoul == <<"seo", "ul">>

Locations == {tokyo_japan, sendai_japan, ilbon_dokyo, seoul, <<>>}
Dates == {date_2011, date_2013, date_2014, date_2001, date_1995, date_1889,
          date_bce, date_empty}
TagLists == {<<>>,
             <<tag_earthquake>>,
             <<tag_earthquake, tag_tsunami>>,
             <<tag_tsunami, tag_earthquake>>,
             <<tag_earthquake, tag_large>>,
             <<tag_nuclear_accident, tag_aviation>>,
             <<tag_sinking, tag_serial>>}

\* get_region tabulated once over Locations; Region(l) = get_region(l)
region_table == [l \in Locations |-> get_region(l)]

Region(location) ==
    IF location \in Locations THEN region_table[location]
    ELSE get_region(location)

\* parse_year tabulated once over Dates; Year(d) = parse_year(d)
year_table == [d \in Dates |-> parse_year(d)]

Year(date_str) ==
    IF date_str \in Dates THEN year_table[date_str] ELSE parse_year(date_str)

\* str(tags) tabulated once over TagLists; TagsRepr(l) = StrOfList(l)
repr_table == [l \in TagLists |-> StrOfList(l)]

TagsRepr(l) == IF l \in TagLists THEN repr_table[l] ELSE StrOfList(l)

----------------------------------------------------------------------------
(* generate_relations.py: calculate_similarity_score *)

disaster == <<"d", "i", "s", "a", "s", "t", "e", "r">>
accident == <<"a", "c", "c", "i", "d", "e", "n", "t">>
terrorism == <<"t", "e", "r", "r", "o", "r", "i", "s", "m">>
crime == <<"c", "r", "i", "m", "e">>
mystery == <<"m", "y", "s", "t", "e", "r", "y">>
conspiracy == <<"c", "o", "n", "s", "p", "i", "r", "a", "c", "y">>
unsolved == <<"u", "n", "s", "o", "l", "v", "e", "d">>

category_names ==
    <<<<disaster, <<"ja", "yeon", "jae", "hae">>>>,
      <<accident, <<"sa", "go">>>>,
      <<terrorism, <<"te", "reo">>>>,
      <<crime, <<"beom", "joe">>>>,
      <<mystery, <<"mi", "seu", "teo", "ri">>>>,
      <<conspiracy, <<"eum", "mo", "ron">>>>,
      <<unsolved, <<"mi", "je", "sa", "geon">>>>>>

\* category_names.get(category, category)
category_name(category) ==
    IF \E n \in DOMAIN category_names : category_names[n][1] = category
    THEN category_names[CHOOSE n \in DOMAIN category_names :
                            category_names[n][1] = category][2]
    ELSE category

same_type_label == <<"dong", "il", " ", "yu", "hyeong", ":", " ">>
same_region_label == <<"dong", "il", " ", "ji", "yeok", ":", " ">>
contemporaneous_label == <<"dong", "si", "dae", " ", "sa", "geon">>
similar_period_label == <<"yu", "sa", " ", "si", "gi">>
common_tags_label == <<"gong", "tong", " ", "tae", "geu", ":", " ">>
similar_scale_label == <<"yu", "sa", " ", "pi", "hae", " ", "gyu", "mo">>
nuclear_label == <<"won", "jeon", " ", "sa", "go">>
aviation_label == <<"hang", "gong", " ", "sa", "go">>
maritime_label == <<"hae", "sang", " ", "cham", "sa">>
serial_label == <<"yeon", "swae", "sal", "in", " ", "sa", "geon">>
default_label == <<"gwan", "ryeon", " ", "sa", "geon">>
kw_nuclear == <<"won", "jeon">>
kw_aviation == <<"hang", "gong">>
kw_sea == <<"hae", "sang">>
kw_sinking == <<"chim", "mol">>
kw_vessel == <<"seon", "bak">>
kw_serial == <<"yeon", "swae", "sal", "in">>

threshold == 3          \* an edge needs score >= 3.0
max_connections == 5    \* accepted edges per node

NoSignal == [score |-> 0, types |-> <<>>]

\* 1. same category (+2)
CategorySignal(inc1, inc2) ==
    IF inc1.category = inc2.category
    THEN [score |-> 2,
          types |-> <<same_type_label \o category_name(inc1.category)>>]
    ELSE NoSignal

\* 2. same region (+3)
RegionSignal(inc1, inc2) ==
    LET region1 == Region(Get(inc1, "location", <<>>))
        region2 == Region(Get(inc2, "location", <<>>))
    IN  IF region1 = region2 /\ region1 # other_region
        THEN [score |-> 3, types |-> <<same_region_label \o region1>>]
        ELSE NoSignal

\* 3. close in time (+2 within 2 years, +1 within 5)
TemporalSignal(inc1, inc2) ==
    LET year1 == Year(Get(inc1, "date", <<>>))
        year2 == Year(Get(inc2, "date", <<>>))
        year_diff == Abs(year1 - year2)
    IN  IF year_diff <= 2
        THEN [score |-> 2, types |-> <<contemporaneous_label>>]
        ELSE IF year_diff <= 5
        THEN [score |-> 1, types |-> <<similar_period_label>>]
        ELSE NoSignal

CommonTags(inc1, inc2) ==
    SetOf(Get(inc1, "tags", <<>>)) \cap SetOf(Get(inc2, "tags", <<>>))

\* 4. shared tags (+1 each); order is the order in which list(common_tags)
\* yields the set, which Python leaves to the hash table
TagSignal(inc1, inc2, order) ==
    LET common_tags == CommonTags(inc1, inc2)
    IN  IF common_tags # {}
        THEN [score |-> Cardinality(common_tags),
              types |-> <<common_tags_label
                            \o Join(<<",", " ">>, Prefix(order, 2))>>]
        ELSE NoSignal

\* 5. similar death toll (+1)
CasualtySignal(inc1, inc2) ==
    LET cas1 == Get(inc1, "casualties", <<>>)
        cas2 == Get(inc2, "casualties", <<>>)
    IN  IF Truthy(cas1) /\ Truthy(cas2)
        THEN LET deaths1 == Get(cas1, "deaths", 0)
                 deaths2 == Get(cas2, "deaths", 0)
             IN  IF deaths1 > 0 /\ deaths2 > 0
                    /\ 10 * Min(deaths1, deaths2) > 3 * Max(deaths1, deaths2)
                 THEN [score |-> 1, types |-> <<similar_scale_label>>]
                 ELSE NoSignal
        ELSE NoSignal

\* 6. special patterns: str(tags) of either incident holds the keyword
TagsStr(inc) == TagsRepr(Get(inc, "tags", <<>>))

NuclearPattern(inc1, inc2) ==
    Contains(kw_nuclear, TagsStr(inc1)) /\ Contains(kw_nuclear, TagsStr(inc2))

AviationPattern(inc1, inc2) ==
    Contains(kw_aviation, TagsStr(inc1)) /\ Contains(kw_aviation, TagsStr(inc2))

MaritimePattern(inc1, inc2) ==
    /\ \E t \in {kw_sea, kw_sinking, kw_vessel} : Contains(t, TagsStr(inc1))
    /\ \E t \in {kw_sea, kw_sinking, kw_vessel} : Contains(t, TagsStr(inc2))

SerialPattern(inc1, inc2) ==
    /\ Contains(kw_serial, Get(inc1, "title", <<>>) \o TagsStr(inc1))
    /\ Contains(kw_serial, Get(inc2, "title", <<>>) \o TagsStr(inc2))

\* a selection that reports the first label appended
SelectRelationFirst(relation_types) ==
    IF Len(relation_types) > 0 THEN relation_types[1] ELSE default_label

\* the label reported: the last one appended, or the default
SelectRelation(relation_types) ==
    IF Len(relation_types) > 0
    THEN relation_types[Len(relation_types)]
    ELSE default_label

\* a scorer in which a special pattern takes the place of the additive
\* score as well as of the labels
calculate_score_overridden(inc1, inc2, order) ==
    LET s1 == CategorySignal(inc1, inc2)
        s2 == RegionSignal(inc1, inc2)
        s3 == TemporalSignal(inc1, inc2)
        s4 == TagSignal(inc1, inc2, order)
        s5 == CasualtySignal(inc1, inc2)
        score5 == s1.score + s2.score + s3.score + s4.score + s5.score
        types5 == s1.types \o s2.types \o s3.types \o s4.types \o s5.types
        nuclear == NuclearPattern(inc1, inc2)
        aviation == AviationPattern(inc1, inc2)
        maritime == MaritimePattern(inc1, inc2)
        serial == SerialPattern(inc1, inc2)
        score == (IF nuclear \/ aviation \/ maritime \/ serial THEN 0 ELSE score5)
                    + (IF nuclear THEN 2 ELSE 0) + (IF aviation THEN 2 ELSE 0)
                    + (IF maritime THEN 2 ELSE 0) + (IF serial THEN 3 ELSE 0)
        types6 == IF nuclear THEN <<nuclear_label>> ELSE types5
        types7 == IF aviation THEN <<aviation_label>> ELSE types6
        types8 == IF maritime THEN <<maritime_label>> ELSE types7
        relation_types == IF serial THEN <<serial_label>> ELSE types8
    IN  [score |-> score, relation |-> SelectRelation(relation_types)]

calculate_similarity_score(inc1, inc2, order) ==
    LET s1 == CategorySignal(inc1, inc2)
        s2 == RegionSignal(inc1, inc2)
        s3 == TemporalSignal(inc1, inc2)
        s4 == TagSignal(inc1, inc2, order)
        s5 == CasualtySignal(inc1, inc2)
        score5 == s1.score + s2.score + s3.score + s4.score + s5.score
        types5 == s1.types \o s2.types \o s3.types \o s4.types \o s5.types
        nuclear == NuclearPattern(inc1, inc2)
        aviation == AviationPattern(inc1, inc2)
        maritime == MaritimePattern(inc1, inc2)
        serial == SerialPattern(inc1, inc2)
        score == score5 + (IF nuclear THEN 2 ELSE 0) + (IF aviation THEN 2 ELSE 0)
                        + (IF maritime THEN 2 ELSE 0) + (IF serial THEN 3 ELSE 0)
        types6 == IF nuclear THEN <<nuclear_label>> ELSE types5
        types7 == IF aviation THEN <<aviation_label>> ELSE types6
        types8 == IF maritime THEN <<maritime_label>> ELSE types7
        relation_types == IF serial THEN <<serial_label>> ELSE types8
    IN  [score |-> score, relation |-> SelectRelation(relation_types)]

----------------------------------------------------------------------------
(* generate_relations.py: generate_relations, update_related_incidents *)

\* the (i, j) the two nested loops reach past `if i >= j: continue`
RECURSIVE PairsFrom(_, _, _)
PairsFrom(i, j, n) ==
    IF i > n THEN <<>>
    ELSE IF j > n THEN PairsFrom(i + 1, i + 2, n)
    ELSE <<<<i, j>>>> \o PairsFrom(i, j + 1, n)

\* the (i, j) of a test `if i > j: continue`: an incident meets itself
RECURSIVE PairsWithSelfFrom(_, _, _)
PairsWithSelfFrom(i, j, n) ==
    IF i > n THEN <<>>
    ELSE IF j > n THEN PairsWithSelfFrom(i + 1, i + 1, n)
    ELSE <<<<i, j>>>> \o PairsWithSelfFrom(i, j + 1, n)

LoopPairsWithSelf(n) == PairsWithSelfFrom(1, 1, n)

LoopPairs(n) == PairsFrom(1, 2, n)

\* pair = (min(inc1['id'], inc2['id']), max(inc1['id'], inc2['id']))
IdPair(inc1, inc2) == <<Min(inc1.id, inc2.id), Max(inc1.id, inc2.id)>>

\* a test that lets a score of 2 through
MeetsThresholdLow(score) == score >= 2

\* if score >= 3.0
MeetsThreshold(score) == score >= threshold

\* the order in which the set S is iterated, under the iteration order
\* `order` of a set that includes it
OrderOf(order, S) == SelectSeq(order, LAMBDA t : t \in S)

\* the body of the nested loops from the k-th pair on: the relations appended
RECURSIVE ScanFrom(_, _, _, _, _)
ScanFrom(incs, pairs, k, seen_pairs, order) ==
    IF k > Len(pairs) THEN <<>>
    ELSE LET inc1 == incs[pairs[k][1]]
             inc2 == incs[pairs[k][2]]
             pr == IdPair(inc1, inc2)
         IN  IF pr \in seen_pairs
             THEN ScanFrom(incs, pairs, k + 1, seen_pairs, order)
             ELSE LET r == calculate_similarity_score(
                               inc1, inc2, OrderOf(order, CommonTags(inc1, inc2)))
                      found == IF MeetsThreshold(r.score)
                               THEN <<[from |-> inc1.id, to |-> inc2.id,
                                       relation |-> r.relation, score |-> r.score]>>
                               ELSE <<>>
                  IN  found \o ScanFrom(incs, pairs, k + 1,
                                        seen_pairs \cup {pr}, order)

ScanPairs(incs, order) == ScanFrom(incs, LoopPairs(Len(incs)), 1, {}, order)

\* list.sort(key=score, reverse=True): descending, and stable (entries of
\* equal score keep their order)
RECURSIVE InsertByScore(_, _)
InsertByScore(sorted, rel) ==
    IF Len(sorted) = 0 THEN <<rel>>
    ELSE IF sorted[1].score >= rel.score
    THEN <<sorted[1]>> \o InsertByScore(Tail(sorted), rel)
    ELSE <<rel>> \o sorted

RECURSIVE SortByScore(_)
SortByScore(rels) ==
    IF Len(rels) = 0 THEN <<>>
    ELSE InsertByScore(SortByScore(SubSeq(rels, 1, Len(rels) - 1)),
                       rels[Len(rels)])

\* connection_count is a defaultdict(int): every id starts at 0
Ids(incs) == {incs[i].id : i \in 1..Len(incs)}

\* a test that looks at the from endpoint alone
HasRoomFromOnly(count, rel) == count[rel.from] < max_connections

\* the test of the greedy loop on one relation
HasRoom(count, rel) ==
    count[rel.from] < max_connections /\ count[rel.to] < max_connections

\* connection_count[rel['from']] += 1; connection_count[rel['to']] += 1
Connect(count, rel) ==
    LET c1 == [count EXCEPT ![rel.from] = @ + 1]
    IN  [c1 EXCEPT ![rel.to] = @ + 1]

\* the dict appended to filtered_relations: the score is dropped
Edge(rel) == [from |-> rel.from, to |-> rel.to, relation |-> rel.relation]

\* a map that records each relation under its from endpoint alone
RECURSIVE RelatedMapFromOnly(_, _)
RelatedMapFromOnly(rels, id) ==
    IF Len(rels) = 0 THEN <<>>
    ELSE LET rel == rels[Len(rels)]
         IN  RelatedMapFromOnly(SubSeq(rels, 1, Len(rels) - 1), id)
                \o (IF rel.from = id THEN <<rel.to>> ELSE <<>>)

\* related_map[id] after the loop over relations
RECURSIVE RelatedMap(_, _)
RelatedMap(rels, id) ==
    IF Len(rels) = 0 THEN <<>>
    ELSE LET rel == rels[Len(rels)]
         IN  RelatedMap(SubSeq(rels, 1, Len(rels) - 1), id)
                \o (IF rel.from = id THEN <<rel.to>> ELSE <<>>)
                \o (IF rel.to = id THEN <<rel.from>> ELSE <<>>)

\* an update that extends the list an incident came with
update_keeping_prior(incs, rels) ==
    [i \in 1..Len(incs) |->
        [f \in DOMAIN incs[i] \cup {"relatedIncidents"} |->
            IF f = "relatedIncidents"
            THEN Get(incs[i], "relatedIncidents", <<>>)
                     \o RelatedMap(rels, incs[i].id)
            ELSE incs[i][f]]]

update_related_incidents(incs, rels) ==
    [i \in 1..Len(incs) |->
        [f \in DOMAIN incs[i] \cup {"relatedIncidents"} |->
            IF f = "relatedIncidents" THEN RelatedMap(rels, incs[i].id)
            ELSE incs[i][f]]]

----------------------------------------------------------------------------
(* Incidents the runs are drawn from *)

MaxIncidents == 7   \* longest corpus given to generate_relations

\* the records of the corpus read by generate_relations.py, without their id
GraphCatalogue ==
    {[title |-> <<"x">>, category |-> disaster, location |-> ilbon_dokyo,
      date |-> date_2011, tags |-> <<tag_earthquake, tag_tsunami>>,
      casualties |-> [deaths |-> 100], relatedIncidents |-> <<>>],
     [title |-> <<"x">>, category |-> disaster, location |-> sendai_japan,
      date |-> date_2014, tags |-> <<tag_earthquake>>,
      casualties |-> None, relatedIncidents |-> <<>>],
     [title |-> <<"x">>, category |-> disaster, location |-> seoul,
      date |-> date_1995, tags |-> <<>>,
      casualties |-> None, relatedIncidents |-> <<1, 1>>]}

\* the ids of a corpus of n records: ascending, descending, or with the
\* last two records sharing id 1
IdLayouts(n) ==
    {[i \in 1..n |-> i],
     [i \in 1..n |-> n + 1 - i],
     [i \in 1..n |-> IF i < n - 1 THEN i + 1 ELSE 1]}

WithId(rec, id) ==
    [f \in DOMAIN rec \cup {"id"} |-> IF f = "id" THEN id ELSE rec[f]]

GraphCorpora ==
    UNION {{[i \in 1..n |-> WithId(recs[i], ids[i])] :
                recs \in [1..n -> GraphCatalogue], ids \in IdLayouts(n)}
           : n \in 0..MaxIncidents}

UniqueIds(incs) ==
    \A i, j \in 1..Len(incs) : incs[i].id = incs[j].id => i = j

TagsOf(incs) == UNION {SetOf(Get(incs[i], "tags", <<>>)) : i \in 1..Len(incs)}

----------------------------------------------------------------------------
(* merge_master_data.py: generate_dedup_key, normalize_incident,           *)
(* merge_duplicates                                                        *)

\* DATA_SOURCES: the 'name' of each source, in list order (the 'file' of a
\* source is the list source_data holds for it)
DATA_SOURCES ==
    <<<<"O", "p", "e", "n", "F", "E", "M", "A">>,
      <<"U", "S", "G", "S">>,
      <<"N", "O", "A", "A">>,
      <<"H", "a", "r", "v", "a", "r", "d", "-", "L", "I", "L">>>>

unknown_incident == <<"U", "n", "k", "n", "o", "w", "n", " ",
                      "I", "n", "c", "i", "d", "e", "n", "t">>
unknown_location == <<"U", "n", "k", "n", "o", "w", "n">>
contemporary == <<"c", "o", "n", "t", "e", "m", "p", "o", "r", "a", "r", "y">>
resolved == <<"r", "e", "s", "o", "l", "v", "e", "d">>
ancient == <<"a", "n", "c", "i", "e", "n", "t">>
modern == <<"m", "o", "d", "e", "r", "n">>

summary_cap == 400        \* incident.get('summary', '')[:400]
description_cap == 3000   \* incident.get('description', '')[:3000]
tag_cap == 15             \* list(all_tags)[:15]
date_key_len == 10        \* (incident.get('date') or '')[:10]
location_key_len == 30    \* (incident.get('location') or '').lower()[:30]

NormalizedFields ==
    {"id", "title", "category", "era", "date", "location", "summary",
     "description", "timeline", "theories", "tags", "sources",
     "relatedIncidents", "images", "casualties", "coordinates", "status"}

MetadataKeys == {"magnitude", "depth", "maxWaveHeight", "femaDisasterNumber"}

\* a JSON null in a slot whose other values are strings: one token that is
\* no character
NoneStr == <<"None">>

\* incident.get('summary', '')[:400] and incident.get('description',
\* '')[:3000] raise TypeError when the field is there and holds null
NormalizeRaises(incident) ==
    \E f \in {"summary", "description"} \cap DOMAIN incident :
        incident[f] = NoneStr

\* fetch_tsunamis.py: the era of a year, as the fetchers set it on the raw
\* records they write
determine_era(year) ==
    IF year < 0 THEN ancient
    ELSE IF year < 1900 THEN modern
    ELSE contemporary

\* normalize_incident with the era computed from the date in place of the
\* raw record's era
normalize_deriving_era(incident, source_name) ==
    LET normalized ==
            [id |-> 0,
             title |-> Get(incident, "title", unknown_incident),
             category |-> Get(incident, "category", disaster),
             era |-> determine_era(Year(Get(incident, "date", <<>>))),
             date |-> Get(incident, "date", <<>>),
             location |-> Get(incident, "location", unknown_location),
             summary |-> Prefix(Get(incident, "summary", <<>>), summary_cap),
             description |->
                 Prefix(Get(incident, "description", <<>>), description_cap),
             timeline |-> Get(incident, "timeline", <<>>),
             theories |-> Get(incident, "theories", <<>>),
             tags |-> Get(incident, "tags", <<>>),
             sources |-> Get(incident, "sources", <<>>),
             relatedIncidents |-> <<>>,
             images |-> Get(incident, "images", <<>>),
             casualties |-> Get(incident, "casualties", None),
             coordinates |-> Get(incident, "coordinates", None),
             status |-> Get(incident, "status", resolved)]
        provenance ==
            [f \in {"_source", "_originalId"} |->
                IF f = "_source" THEN source_name
                ELSE Get(incident, "originalId", Get(incident, "id", None))]
        metadata == [key \in MetadataKeys \cap DOMAIN incident |-> incident[key]]
    IN  [f \in DOMAIN normalized \cup DOMAIN provenance \cup DOMAIN metadata |->
            IF f \in DOMAIN normalized THEN normalized[f]
            ELSE IF f \in DOMAIN provenance THEN provenance[f]
            ELSE metadata[f]]

\* the record returned when nothing raises
normalize_incident(incident, source_name) ==
    LET normalized ==
            [id |-> 0,
             title |-> Get(incident, "title", unknown_incident),
             category |-> Get(incident, "category", disaster),
             era |-> Get(incident, "era", contemporary),
             date |-> Get(incident, "date", <<>>),
             location |-> Get(incident, "location", unknown_location),
             summary |-> Prefix(Get(incident, "summary", <<>>), summary_cap),
             description |->
                 Prefix(Get(incident, "description", <<>>), description_cap),
             timeline |-> Get(incident, "timeline", <<>>),
             theories |-> Get(incident, "theories", <<>>),
             tags |-> Get(incident, "tags", <<>>),
             sources |-> Get(incident, "sources", <<>>),
             relatedIncidents |-> <<>>,
             images |-> Get(incident, "images", <<>>),
             casualties |-> Get(incident, "casualties", None),
             coordinates |-> Get(incident, "coordinates", None),
             status |-> Get(incident, "status", resolved)]
        provenance ==
            [f \in {"_source", "_originalId"} |->
                IF f = "_source" THEN source_name
                ELSE Get(incident, "originalId", Get(incident, "id", None))]
        metadata == [key \in MetadataKeys \cap DOMAIN incident |-> incident[key]]
    IN  [f \in DOMAIN normalized \cup DOMAIN provenance \cup DOMAIN metadata |->
            IF f \in DOMAIN normalized THEN normalized[f]
            ELSE IF f \in DOMAIN provenance THEN provenance[f]
            ELSE metadata[f]]

\* A coordinate is a float with two decimals, held as its hundredths.
\* round(x, 1): the nearest tenth, in tenths (no coordinate modelled lies
\* half-way between two tenths)
Round1(h) ==
    LET a == Abs(h)
        t == IF a % 10 >= 5 THEN a \div 10 + 1 ELSE a \div 10
    IN  IF h < 0 THEN -t ELSE t

RECURSIVE NatStr(_)
NatStr(n) ==
    IF n < 10 THEN <<Digits[n + 1]>>
    ELSE NatStr(n \div 10) \o <<Digits[(n % 10) + 1]>>

\* str() of the float round(x, 1) returned for hundredths h: "38.3", "-0.0"
RoundedStr(h) ==
    LET t == Abs(Round1(h))
    IN  (IF h < 0 THEN <<"-">> ELSE <<>>)
            \o NatStr(t \div 10) \o <<".">> \o NatStr(t % 10)

\* round(coords.get(k, 0), 1) as text: the default 0 is an int, and stays one
CoordStr(coords, k) ==
    IF k \in DOMAIN coords THEN RoundedStr(coords[k]) ELSE <<"0">>

\* key_str of generate_dedup_key.  The key returned is the first 16 hex
\* digits of md5(key_str); the model takes key_str itself for the key, that
\* is, takes the digest to be free of collisions.
generate_dedup_key(incident) ==
    LET date == Prefix(Get(incident, "date", <<>>), date_key_len)
        location ==
            Prefix(lower(Get(incident, "location", <<>>)), location_key_len)
        category == Get(incident, "category", <<>>)
        coords == Get(incident, "coordinates", None)
        coord_str == IF Truthy(coords)
                     THEN CoordStr(coords, "lat") \o <<",">>
                              \o CoordStr(coords, "lng")
                     ELSE <<>>
    IN  date \o <<"|">> \o location \o <<"|">> \o category \o <<"|">> \o coord_str

\* a grouping that opens a bucket for every record
KeysOfEveryRecord(incs) == [n \in 1..Len(incs) |-> generate_dedup_key(incs[n])]

\* the keys of dedup_map in insertion order: first occurrences
RECURSIVE KeysInOrder(_)
KeysInOrder(incs) ==
    IF Len(incs) = 0 THEN <<>>
    ELSE LET before == KeysInOrder(SubSeq(incs, 1, Len(incs) - 1))
             key == generate_dedup_key(incs[Len(incs)])
         IN  IF \E n \in 1..Len(before) : before[n] = key
             THEN before ELSE Append(before, key)

\* dedup_map[key]
Group(incs, key) == SelectSeq(incs, LAMBDA inc : generate_dedup_key(inc) = key)

\* the key max() ranks the members of a group by
Richness(x) ==
    <<Len(Get(x, "description", <<>>)),
      Len(Get(x, "tags", <<>>)),
      IF Truthy(Get(x, "coordinates", None)) THEN 1 ELSE 0,
      IF Truthy(Get(x, "casualties", None)) THEN 1 ELSE 0>>

\* tuple comparison a < b
RECURSIVE TupleLess(_, _)
TupleLess(a, b) ==
    IF Len(a) = 0 \/ Len(b) = 0 THEN Len(a) < Len(b)
    ELSE IF a[1] # b[1] THEN a[1] < b[1]
    ELSE TupleLess(Tail(a), Tail(b))

\* a scan that lets a later member take the place of an equal one
RECURSIVE BestLatest(_)
BestLatest(group) ==
    IF Len(group) = 1 THEN group[1]
    ELSE LET rest == BestLatest(SubSeq(group, 1, Len(group) - 1))
             last == group[Len(group)]
         IN  IF TupleLess(Richness(last), Richness(rest)) THEN rest ELSE last

\* max(group, key=...): the first member no other member outranks
RECURSIVE Best(_)
Best(group) ==
    IF Len(group) = 1 THEN group[1]
    ELSE LET rest == Best(SubSeq(group, 1, Len(group) - 1))
             last == group[Len(group)]
         IN  IF TupleLess(Richness(rest), Richness(last)) THEN last ELSE rest

RECURSIVE Concat(_)
Concat(ss) == IF Len(ss) = 0 THEN <<>> ELSE ss[1] \o Concat(Tail(ss))

\* a union that keeps every entry
KeepAllSources(all_sources) == all_sources

\* unique_sources: the first source of each url
RECURSIVE UniqueSources(_)
UniqueSources(all_sources) ==
    IF Len(all_sources) = 0 THEN <<>>
    ELSE LET before == UniqueSources(SubSeq(all_sources, 1, Len(all_sources) - 1))
             src == all_sources[Len(all_sources)]
         IN  IF \E n \in 1..Len(before) :
                    Get(before[n], "url", <<>>) = Get(src, "url", <<>>)
             THEN before ELSE Append(before, src)

\* a survivor that keeps every tag of the union
MergeGroupUncapped(group, order) ==
    LET best == Best(group)
        all_sources ==
            Concat([n \in 1..Len(group) |-> Get(group[n], "sources", <<>>)])
        all_tags ==
            UNION {SetOf(Get(group[n], "tags", <<>>)) : n \in 1..Len(group)}
    IN  [f \in DOMAIN best \cup {"sources", "tags"} |->
            IF f = "sources" THEN UniqueSources(all_sources)
            ELSE IF f = "tags" THEN OrderOf(order, all_tags)
            ELSE best[f]]

\* a survivor that takes its title from the first member of the group
MergeGroupRetitled(group, order) ==
    LET best == Best(group)
        all_sources ==
            Concat([n \in 1..Len(group) |-> Get(group[n], "sources", <<>>)])
        all_tags ==
            UNION {SetOf(Get(group[n], "tags", <<>>)) : n \in 1..Len(group)}
    IN  [f \in DOMAIN best \cup {"sources", "tags"} |->
            IF f = "sources" THEN UniqueSources(all_sources)
            ELSE IF f = "tags" THEN Prefix(OrderOf(order, all_tags), tag_cap)
            ELSE IF f = "title" THEN Get(group[1], "title", <<>>)
            ELSE best[f]]

\* the survivor of a group of two or more; order is the order in which
\* list(all_tags) yields the set
MergeGroup(group, order) ==
    LET best == Best(group)
        all_sources ==
            Concat([n \in 1..Len(group) |-> Get(group[n], "sources", <<>>)])
        all_tags ==
            UNION {SetOf(Get(group[n], "tags", <<>>)) : n \in 1..Len(group)}
    IN  [f \in DOMAIN best \cup {"sources", "tags"} |->
            IF f = "sources" THEN UniqueSources(all_sources)
            ELSE IF f = "tags" THEN Prefix(OrderOf(order, all_tags), tag_cap)
            ELSE best[f]]

\* a merge that rebuilds the sources and the tags of every group
SurvivorRebuilt(group, order) == MergeGroup(group, order)

\* the entry merged gets for one group
Survivor(group, order) ==
    IF Len(group) = 1 THEN group[1] ELSE MergeGroup(group, order)

merge_duplicates(incs, order) ==
    LET keys == KeysInOrder(incs)
    IN  [n \in 1..Len(keys) |-> Survivor(Group(incs, keys[n]), order)]

----------------------------------------------------------------------------
(* merge_master_data.py: main's sort and ids, calculate_relations *)

\* the characters of the dates, in code point order
CharOrder == <<"-", "0", "1", "2", "3", "4", "5", "6", "7", "8", "9">>

CharRank(c) == CHOOSE n \in DOMAIN CharOrder : CharOrder[n] = c

\* a < b for two strings
RECURSIVE StrLess(_, _)
StrLess(a, b) ==
    IF Len(a) = 0 \/ Len(b) = 0 THEN Len(a) < Len(b)
    ELSE IF a[1] # b[1] THEN CharRank(a[1]) < CharRank(b[1])
    ELSE StrLess(Tail(a), Tail(b))

\* merged.sort(key=date, reverse=True): descending, and stable
RECURSIVE InsertByDate(_, _)
InsertByDate(sorted, inc) ==
    IF Len(sorted) = 0 THEN <<inc>>
    ELSE IF ~StrLess(Get(sorted[1], "date", <<>>), Get(inc, "date", <<>>))
    THEN <<sorted[1]>> \o InsertByDate(Tail(sorted), inc)
    ELSE <<inc>> \o sorted

RECURSIVE SortByDate(_)
SortByDate(incs) ==
    IF Len(incs) = 0 THEN <<>>
    ELSE InsertByDate(SortByDate(SubSeq(incs, 1, Len(incs) - 1)),
                      incs[Len(incs)])

\* a numbering that starts at 0
AssignIdsFromZero(incs) == [i \in 1..Len(incs) |-> [incs[i] EXCEPT !.id = i - 1]]

\* for i, inc in enumerate(merged): inc['id'] = i + 1
AssignIds(incs) == [i \in 1..Len(incs) |-> [incs[i] EXCEPT !.id = i]]

max_relations == 5   \* calculate_relations(incidents, max_relations=5)

default_year == <<"2", "0", "0", "0">>

\* int(inc.get('date', '2000')[:4]) and whether it raises
YearText(inc) == Prefix(Get(inc, "date", default_year), 4)
YearParses(inc) == IntParses(YearText(inc))
YearOf(inc) == IntOf(YearText(inc))

\* the three indexes: lists of ids, in corpus order
ByCategory(incs, cat) ==
    Concat([i \in 1..Len(incs) |->
              IF Get(incs[i], "category", <<>>) = cat
              THEN <<incs[i].id>> ELSE <<>>])

ByYear(incs, y) ==
    Concat([i \in 1..Len(incs) |->
              IF YearParses(incs[i]) /\ YearOf(incs[i]) = y
              THEN <<incs[i].id>> ELSE <<>>])

ByTag(incs, tag) ==
    Concat([i \in 1..Len(incs) |->
              LET tags == Get(incs[i], "tags", <<>>)
              IN  Concat([n \in 1..Len(tags) |->
                            IF tags[n] = tag THEN <<incs[i].id>> ELSE <<>>])])

\* the additions `scores[other_id] = scores.get(other_id, 0) + w` made for
\* the ids of one index list
Additions(ids, inc_id, w) ==
    LET others == SelectSeq(ids, LAMBDA other_id : other_id # inc_id)
    IN  [n \in 1..Len(others) |-> <<others[n], w>>]

\* the window range(year - 1, year + 2)
YearWindowShort(year) == [k \in 1..3 |-> year - 2 + k]

\* range(year - 2, year + 3)
YearWindow(year) == [k \in 1..5 |-> year - 3 + k]

\* weight = 3 if y == year else (2 if abs(y - year) == 1 else 1)
YearWeight(y, year) ==
    IF y = year THEN 3 ELSE IF Abs(y - year) = 1 THEN 2 ELSE 1

\* the dict scores, in insertion order, as <<other_id, score>> pairs
RECURSIVE Accumulate(_)
Accumulate(additions) ==
    IF Len(additions) = 0 THEN <<>>
    ELSE LET before == Accumulate(SubSeq(additions, 1, Len(additions) - 1))
             add == additions[Len(additions)]
         IN  IF \E n \in 1..Len(before) : before[n][1] = add[1]
             THEN [n \in 1..Len(before) |->
                      IF before[n][1] = add[1]
                      THEN <<add[1], before[n][2] + add[2]>> ELSE before[n]]
             ELSE Append(before, add)

ScoresOf(incs, inc) ==
    LET inc_id == inc.id
        cat == Get(inc, "category", <<>>)
        year == IF YearParses(inc) THEN YearOf(inc) ELSE 2000
        window == YearWindow(year)
        tags == Get(inc, "tags", <<>>)
    IN  Accumulate(
            Additions(ByCategory(incs, cat), inc_id, 2)
            \o Concat([k \in 1..Len(window) |->
                         Additions(ByYear(incs, window[k]), inc_id,
                                   YearWeight(window[k], year))])
            \o Concat([n \in 1..Len(tags) |->
                         Additions(ByTag(incs, tags[n]), inc_id, 1)]))

\* sorted(scores.items(), key=lambda x: -x[1]): descending, and stable
RECURSIVE InsertBySecond(_, _)
InsertBySecond(sorted, item) ==
    IF Len(sorted) = 0 THEN <<item>>
    ELSE IF sorted[1][2] >= item[2]
    THEN <<sorted[1]>> \o InsertBySecond(Tail(sorted), item)
    ELSE <<item>> \o sorted

RECURSIVE SortBySecond(_)
SortBySecond(items) ==
    IF Len(items) = 0 THEN <<>>
    ELSE InsertBySecond(SortBySecond(SubSeq(items, 1, Len(items) - 1)),
                        items[Len(items)])

TopRelations(scored) == Prefix(SortBySecond(scored), max_relations)

\* inc['relatedIncidents'] = [r[0] for r in top_relations if r[1] >= 3]
RelatedOf(top_relations) ==
    LET kept == SelectSeq(top_relations, LAMBDA r : r[2] >= 3)
    IN  [n \in 1..Len(kept) |-> kept[n][1]]

same_type_open == <<"dong", "il", " ", "yu", "hyeong", " ", "(">>

\* the relations appended for one incident
NewRelations(incs, inc, top_relations) ==
    LET cat == Get(inc, "category", <<>>)
        kept == SelectSeq(top_relations,
                          LAMBDA r : r[2] >= 3 /\ inc.id < r[1])
    IN  [n \in 1..Len(kept) |->
            [from |-> inc.id,
             to |-> kept[n][1],
             relation |->
                 IF cat = incs[kept[n][1]].category
                 THEN same_type_open \o cat \o <<")">>
                 ELSE default_label,
             score |-> kept[n][2]]]

\* the keys of a record that start with '_'
InternalKeys == {"_source", "_originalId"}

\* clean = {k: v for k, v in inc.items() if not k.startswith('_')}
Clean(inc) == [k \in DOMAIN inc \ InternalKeys |-> inc[k]]

----------------------------------------------------------------------------
(* run_pipeline.py: main's list of steps, run_script *)

\* the collection scripts, in the order main appends them
fetch_scripts ==
    <<"fetch_fema.py", "fetch_earthquakes.py", "fetch_tsunamis.py",
      "fetch_coldcases.py">>

\* the flag that takes each collection script out of the run
skip_flags ==
    <<"skip_fema", "skip_earthquakes", "skip_tsunamis", "skip_coldcases">>

\* collection_steps: nothing with --only-merge, else the scripts not skipped
collection_steps(a) ==
    IF a.only_merge THEN <<>>
    ELSE SelectSeq(fetch_scripts,
                   LAMBDA script :
                       \E n \in 1..Len(fetch_scripts) :
                           fetch_scripts[n] = script /\ ~a[skip_flags[n]])

merge_steps == <<"merge_master_data.py">>

\* the command lines argparse accepts: each flag given or not
CommandLines ==
    [skip_fema : BOOLEAN, skip_earthquakes : BOOLEAN, skip_tsunamis : BOOLEAN,
     skip_coldcases : BOOLEAN, only_merge : BOOLEAN]

\* what a script can end with: 0, or an error code
ReturnCodes == {0, 1, 2}

\* run_script, given the return code of the subprocess it waited for
run_script(returncode) == returncode = 0

----------------------------------------------------------------------------
(* generate_relations.py, main: read the corpus, build the relations, write *)

InitRunIdle ==
    /\ args = <<>>
    /\ all_steps = <<>>
    /\ step_idx = 0
    /\ ran = <<>>
    /\ exit_code = <<>>

InitYearIdle ==
    /\ parsed_date = <<>>
    /\ parsed_year = 0

InitScoreIdle ==
    /\ pair = <<>>
    /\ forward = <<>>
    /\ backward = <<>>
    /\ InitYearIdle

InitGraphIdle ==
    /\ incidents = <<>>
    /\ relations = <<>>
    /\ rel_idx = 0
    /\ connection_count = <<>>
    /\ filtered_relations = <<>>
    /\ output_relations = <<>>

InitMergeIdle ==
    /\ source_data = <<>>
    /\ src_idx = 0
    /\ all_incidents = <<>>
    /\ merged = <<>>
    /\ inc_idx = 0
    /\ scores = <<>>
    /\ master_file = <<>>
    /\ ts_file = <<>>

Init ==
    /\ pc = "generate_relations"
    /\ incidents \in GraphCorpora
    /\ relations = <<>>
    /\ rel_idx = 0
    /\ connection_count = <<>>
    /\ filtered_relations = <<>>
    /\ output_relations = <<>>
    /\ InitScoreIdle
    /\ InitMergeIdle
    /\ InitRunIdle

\* generate_relations up to the greedy loop: the scan of all pairs, the sort
ScanAndSort ==
    /\ pc = "generate_relations"
    /\ \E order \in SetOrders(TagsOf(incidents)) :
           relations' = SortByScore(ScanPairs(incidents, order))
    /\ connection_count' = [id \in Ids(incidents) |-> 0]
    /\ filtered_relations' = <<>>
    /\ rel_idx' = 1
    /\ pc' = "greedy"
    /\ UNCHANGED <<incidents, output_relations, score_vars, merge_vars,
                   run_vars>>

\* one turn of `for rel in relations`, the test true
GreedyAccept ==
    /\ pc = "greedy"
    /\ rel_idx <= Len(relations)
    /\ HasRoom(connection_count, relations[rel_idx])
    /\ filtered_relations' = Append(filtered_relations, Edge(relations[rel_idx]))
    /\ connection_count' = Connect(connection_count, relations[rel_idx])
    /\ rel_idx' = rel_idx + 1
    /\ UNCHANGED <<pc, incidents, relations, output_relations, score_vars, merge_vars,
                   run_vars>>

\* one turn of `for rel in relations`, the test false
GreedyReject ==
    /\ pc = "greedy"
    /\ rel_idx <= Len(relations)
    /\ ~HasRoom(connection_count, relations[rel_idx])
    /\ rel_idx' = rel_idx + 1
    /\ UNCHANGED <<pc, incidents, relations, connection_count,
                   filtered_relations, output_relations, score_vars, merge_vars,
                   run_vars>>

\* return filtered_relations, to main
GreedyReturn ==
    /\ pc = "greedy"
    /\ rel_idx > Len(relations)
    /\ output_relations' = filtered_relations
    /\ pc' = "update_related_incidents"
    /\ UNCHANGED <<incidents, relations, rel_idx, connection_count,
                   filtered_relations, score_vars, merge_vars, run_vars>>

\* main: incidents = update_related_incidents(incidents, relations), and the
\* output file is written
UpdateRelatedIncidents ==
    /\ pc = "update_related_incidents"
    /\ incidents' = update_related_incidents(incidents, output_relations)
    /\ pc' = "written"
    /\ UNCHANGED <<relations, rel_idx, connection_count, filtered_relations,
                   output_relations, score_vars, merge_vars, run_vars>>

Next ==
    \/ ScanAndSort
    \/ GreedyAccept
    \/ GreedyReject
    \/ GreedyReturn
    \/ UpdateRelatedIncidents

Spec == Init /\ [][Next]_vars

----------------------------------------------------------------------------
(* Properties of the relation graph builder *)

\* the score calculate_similarity_score gives a pair (the iteration order of
\* the common tags bears on the label alone)
PairScore(inc1, inc2) ==
    calculate_similarity_score(
        inc1, inc2,
        CHOOSE o \in SetOrders(CommonTags(inc1, inc2)) : TRUE).score

SumLen(incs) ==
    LET RECURSIVE Sum(_)
        Sum(n) == IF n = 0 THEN 0
                  ELSE Sum(n - 1) + Len(incs[n].relatedIncidents)
    IN  Sum(Len(incs))

SymmetricUpdate ==
    (pc = "written" /\ UniqueIds(incidents)) =>
        \A i, j \in 1..Len(incidents) :
            (incidents[j].id \in SetOf(incidents[i].relatedIncidents))
            <=> \E n \in 1..Len(output_relations) :
                    {output_relations[n].from, output_relations[n].to}
                        = {incidents[i].id, incidents[j].id}

SymmetricUpdateWitness ==
    /\ pc = "written"
    /\ UniqueIds(incidents)
    /\ Len(incidents) >= 3
    /\ Len(output_relations) >= 2

\* C4: Threshold respected.  Every edge in the list generate_relations
\* returns, and every edge accepted so far, joins records i < j of the
\* corpus whose similarity score is at least 3.
ThresholdRespected ==
    pc \in {"greedy", "update_related_incidents"} =>
        \A n \in 1..Len(filtered_relations) :
            \E i, j \in 1..Len(incidents) :
                /\ i < j
                /\ incidents[i].id = filtered_relations[n].from
                /\ incidents[j].id = filtered_relations[n].to
                /\ PairScore(incidents[i], incidents[j]) >= 3

ThresholdWitness ==
    /\ pc = "update_related_incidents"
    /\ Len(output_relations) >= 1
    /\ output_relations = filtered_relations
    /\ \E i, j \in 1..Len(incidents) :
           i < j /\ PairScore(incidents[i], incidents[j]) < 3

\* C5: Relation-list consistency.  For a corpus with unique ids, once the
\* related lists are written, the relation list has exactly half as many
\* entries as the related lists have in total.
RelationListConsistency ==
    (pc = "written" /\ UniqueIds(incidents)) =>
        2 * Len(output_relations) = SumLen(incidents)

RelationListWitness ==
    /\ pc = "written"
    /\ UniqueIds(incidents)
    /\ Len(output_relations) >= 3
    /\ \E i \in 1..Len(incidents) : incidents[i].relatedIncidents = <<>>

\* C6: Greedy acceptance.  The greedy loop goes once through the eligible
\* edges in non-increasing score order; the edge at hand is accepted exactly
\* when both endpoints have accepted-degree < 5, an acceptance appends the
\* edge and adds one to the counter of each endpoint, a rejection changes
\* nothing, and the loop moves on to the next edge either way.
GreedyTurn ==
    (pc = "greedy" /\ rel_idx <= Len(relations)) =>
        LET rel == relations[rel_idx]
            room == /\ connection_count[rel.from] < 5
                    /\ connection_count[rel.to] < 5
        IN  /\ rel_idx' = rel_idx + 1
            /\ relations' = relations
            /\ room =>
                 /\ filtered_relations' =
                        Append(filtered_relations,
                               [from |-> rel.from, to |-> rel.to,
                                relation |-> rel.relation])
                 /\ connection_count' =
                        [id \in DOMAIN connection_count |->
                            connection_count[id]
                              + (IF id = rel.from THEN 1 ELSE 0)
                              + (IF id = rel.to THEN 1 ELSE 0)]
            /\ ~room =>
                 /\ filtered_relations' = filtered_relations
                 /\ connection_count' = connection_count

GreedyOrder ==
    pc = "greedy" =>
        /\ \A n \in 1..Len(relations) : relations[n].score >= 3
        /\ \A m, n \in 1..Len(relations) :
               m < n => relations[m].score >= relations[n].score

GreedyAcceptance == [][GreedyTurn]_vars /\ []GreedyOrder

GreedyAcceptanceWitness ==
    /\ pc = "greedy"
    /\ rel_idx > Len(relations)
    /\ Len(filtered_relations) < Len(relations)
    /\ \E m, n \in 1..Len(relations) : relations[m].score > relations[n].score

----------------------------------------------------------------------------
(* The scorer on its own: two incidents, scored in both argument orders *)

ScoreCategories == {disaster, crime}
ScoreLocations == {tokyo_japan, sendai_japan, ilbon_dokyo}
ScoreDates == {date_2011, date_2014, date_empty}
ScoreTags == {<<>>,
              <<tag_earthquake, tag_tsunami>>,
              <<tag_tsunami, tag_earthquake>>,
              <<tag_earthquake, tag_large>>,
              <<tag_nuclear_accident, tag_aviation>>,
              <<tag_sinking, tag_serial>>}
ScoreDeaths == {100, 20}

\* two disasters of the same day whose locations are written in English
ExampleA == [category |-> disaster, location |-> tokyo_japan,
             date |-> date_2011, tags |-> <<tag_earthquake, tag_tsunami>>]
ExampleB == [category |-> disaster, location |-> sendai_japan,
             date |-> date_2011, tags |-> <<tag_earthquake, tag_large>>]

ScoreIncidents ==
    {ExampleA, ExampleB}
    \cup
    {[title |-> <<"x">>, category |-> c, location |-> l, date |-> d, tags |-> t]
        : c \in ScoreCategories, l \in ScoreLocations, d \in ScoreDates,
          t \in ScoreTags}
    \cup
    {[title |-> <<"x">>, category |-> c, location |-> l, date |-> d, tags |-> t,
      casualties |-> [deaths |-> n]]
        : c \in ScoreCategories, l \in ScoreLocations, d \in ScoreDates,
          t \in ScoreTags, n \in ScoreDeaths}

NoResult == [score |-> 0, relation |-> <<>>]

InitScore ==
    /\ pc = "score"
    /\ pair \in ScoreIncidents \X ScoreIncidents
    /\ forward = NoResult
    /\ backward = NoResult
    /\ InitYearIdle
    /\ InitGraphIdle
    /\ InitMergeIdle
    /\ InitRunIdle

ScoreForward ==
    /\ pc = "score"
    /\ \E order \in SetOrders(CommonTags(pair[1], pair[2])) :
           forward' = calculate_similarity_score(pair[1], pair[2], order)
    /\ pc' = "score_back"
    /\ UNCHANGED <<pair, backward, parsed_date, parsed_year, graph_vars,
                   merge_vars, run_vars>>

ScoreBackward ==
    /\ pc = "score_back"
    /\ \E order \in SetOrders(CommonTags(pair[2], pair[1])) :
           backward' = calculate_similarity_score(pair[2], pair[1], order)
    /\ pc' = "scored"
    /\ UNCHANGED <<pair, forward, parsed_date, parsed_year, graph_vars,
                   merge_vars, run_vars>>

NextScore == ScoreForward \/ ScoreBackward

SpecScore == InitScore /\ [][NextScore]_vars

----------------------------------------------------------------------------
(* Properties of the scorer *)

\* C8: Order-independence of scoring.  calculate_similarity_score(a, b) and
\* calculate_similarity_score(b, a) return the same non-negative score and
\* the same relation label.
OrderIndependence ==
    pc = "scored" =>
        /\ forward.score = backward.score
        /\ forward.score >= 0
        /\ forward.relation = backward.relation

\* the part of C8 that bears on the score alone
ScoreSymmetry ==
    pc = "scored" => forward.score = backward.score /\ forward.score >= 0

\* C9: Scoring example.  For the two disasters of 2011-03-11 in "Tokyo,
\* Japan" and "Sendai, Japan" that share the tag earthquake, the scorer
\* returns 5 (category +2, contemporaneous +2, one shared tag +1; neither
\* location names a region of the keyword table) and the label of the last
\* rule that matched, the common-tags label.
ScoringExample ==
    (pc # "score" /\ pair = <<ExampleA, ExampleB>>) =>
        /\ forward.score = 5
        /\ forward.relation = common_tags_label \o tag_earthquake
        /\ Region(ExampleA.location) = other_region
        /\ Region(ExampleB.location) = other_region

ScoringExampleWitness ==
    /\ pc = "scored"
    /\ pair = <<ExampleA, ExampleB>>
    /\ forward.score >= threshold

\* C9 as stated: score 8 with the region signal, label "contemporaneous"
ScoringExampleAsStated ==
    (pc # "score" /\ pair = <<ExampleA, ExampleB>>) =>
        /\ forward.score = 8
        /\ forward.relation = contemporaneous_label

----------------------------------------------------------------------------
(* merge_master_data.py, main: load, normalize, merge, sort, number,       *)
(* relate, write                                                           *)

MaxPerSource == 2   \* most records a source file holds

tokyo_upper == <<"T", "O", "K", "Y", "O", ",", " ", "J", "a", "p", "a", "n">>

name_fema == DATA_SOURCES[1]
name_usgs == DATA_SOURCES[2]
name_noaa == DATA_SOURCES[3]

\* the records of fema_disasters.json: the first and the third are the same
\* event, as rich as one another
FemaRecords ==
    {[id |-> 1, title |-> <<"f">>, category |-> disaster,
      era |-> contemporary, date |-> date_2011, location |-> tokyo_japan,
      summary |-> <<"s">>, description |-> <<"a", "b">>,
      timeline |-> <<>>, theories |-> <<>>,
      tags |-> <<tag_earthquake>>,
      sources |-> <<[name |-> name_fema, url |-> <<"f", "1">>]>>,
      relatedIncidents |-> <<>>, images |-> <<>>,
      casualties |-> None, coordinates |-> None,
      status |-> resolved, originalId |-> 11, femaDisasterNumber |-> 7],
     [title |-> <<"g">>, date |-> date_1889,
      tags |-> <<tag_tsunami, tag_earthquake>>],
     [id |-> 3, title |-> <<"w">>, category |-> disaster,
      era |-> contemporary, date |-> date_2011, location |-> tokyo_japan,
      summary |-> <<"s">>, description |-> <<"c", "d">>,
      timeline |-> <<>>, theories |-> <<>>,
      tags |-> <<tag_earthquake>>,
      sources |-> <<[name |-> name_fema, url |-> <<"f", "3">>]>>,
      relatedIncidents |-> <<>>, images |-> <<>>,
      casualties |-> None, coordinates |-> None,
      status |-> resolved, originalId |-> 13, femaDisasterNumber |-> 8]}

\* the records of usgs_earthquakes.json
UsgsRecords ==
    {[id |-> 1, title |-> <<"u">>, category |-> disaster,
      era |-> contemporary, date |-> date_2011, location |-> tokyo_japan,
      summary |-> <<"s">>, description |-> <<"a", "b", "c">>,
      timeline |-> <<>>, theories |-> <<>>,
      tags |-> <<tag_earthquake, tag_tsunami>>,
      sources |-> <<[name |-> name_usgs, url |-> <<"u", "1">>]>>,
      relatedIncidents |-> <<>>, images |-> <<>>,
      casualties |-> None, coordinates |-> [lat |-> 3832, lng |-> 14237],
      status |-> resolved, originalId |-> 21, magnitude |-> 9],
     [id |-> 2, title |-> <<"v">>, category |-> disaster,
      era |-> contemporary, date |-> date_2013, location |-> sendai_japan,
      summary |-> <<"s">>, description |-> <<"a">>,
      timeline |-> <<>>, theories |-> <<>>,
      tags |-> <<tag_earthquake>>,
      sources |-> <<[name |-> name_usgs, url |-> <<"u", "2">>]>>,
      relatedIncidents |-> <<>>, images |-> <<>>,
      casualties |-> None, coordinates |-> [lat |-> 4, lng |-> 14088],
      status |-> resolved, originalId |-> 22, magnitude |-> 6]}

\* the records of noaa_tsunamis.json: the two USGS events again, the second
\* one 0.04 degrees south of the equator where USGS has it 0.04 north
NoaaRecords ==
    {[id |-> 1, title |-> <<"n">>, category |-> disaster,
      era |-> contemporary, date |-> date_2011, location |-> tokyo_upper,
      summary |-> <<"s">>, description |-> <<"a", "b", "d">>,
      timeline |-> <<>>, theories |-> <<>>,
      tags |-> <<tag_tsunami, tag_large>>,
      sources |-> <<[name |-> name_noaa, url |-> <<"n", "1">>],
                    [name |-> name_usgs, url |-> <<"u", "1">>]>>,
      relatedIncidents |-> <<>>, images |-> <<>>,
      casualties |-> [deaths |-> 100],
      coordinates |-> [lat |-> 3828, lng |-> 14241],
      status |-> resolved, originalId |-> 31, maxWaveHeight |-> 4],
     [id |-> 2, title |-> <<"m">>, category |-> disaster,
      era |-> contemporary, date |-> date_2013, location |-> sendai_japan,
      summary |-> <<"s">>, description |-> <<"a">>,
      timeline |-> <<>>, theories |-> <<>>,
      tags |-> <<tag_tsunami>>,
      sources |-> <<[name |-> name_noaa, url |-> <<"n", "2">>]>>,
      relatedIncidents |-> <<>>, images |-> <<>>,
      casualties |-> None,
      coordinates |-> [lat |-> -4, lng |-> 14088],
      status |-> resolved, originalId |-> 32, maxWaveHeight |-> 1]}

\* the records of coldcases_crimes.json; the summary of the third is null
ColdCaseRecords ==
    {[id |-> 1, title |-> <<"c">>, category |-> crime,
      era |-> contemporary, date |-> date_2001, location |-> seoul,
      summary |-> <<"s">>, description |-> <<"a", "b">>,
      timeline |-> <<>>, theories |-> <<>>,
      tags |-> <<tag_serial>>,
      sources |-> <<[name |-> DATA_SOURCES[4], url |-> <<"h", "1">>]>>,
      relatedIncidents |-> <<>>, images |-> <<>>,
      casualties |-> [deaths |-> 3], coordinates |-> None,
      status |-> resolved, originalId |-> 41],
     [id |-> 2, title |-> <<"d">>, category |-> crime,
      location |-> seoul, tags |-> <<tag_large, tag_large>>,
      sources |-> <<[name |-> DATA_SOURCES[4], url |-> <<"h", "2">>],
                    [name |-> DATA_SOURCES[4], url |-> <<"h", "2">>]>>],
     [id |-> 3, title |-> <<"e">>, category |-> crime,
      date |-> date_2001, location |-> seoul, summary |-> NoneStr,
      tags |-> <<tag_serial>>]}

SourceRecords == <<FemaRecords, UsgsRecords, NoaaRecords, ColdCaseRecords>>

\* what load_source_data can return for the n-th source: the incidents of
\* its file, or [] when the file is missing or unreadable
FileContents(n) ==
    UNION {[1..len -> SourceRecords[n]] : len \in 0..MaxPerSource}

MaxTags == 17   \* most tags the members of one group hold between them

\* the tags 't1', 't2', ... of the records that hold many
TagName(n) == <<"t">> \o NatStr(n)

TagRun(a, b) == [i \in 1..(b - a + 1) |-> TagName(a + i - 1)]

\* two records of fema_disasters.json that are one event, with 12, 15, 16 or
\* MaxTags tags between them
ManyTagGroups ==
    {<<[title |-> <<"p">>, tags |-> TagRun(1, m)],
       [title |-> <<"q">>, tags |-> TagRun(r[1], r[2])]>> :
        m \in {8, 10},
        r \in {<<6, 12>>, <<6, tag_cap>>, <<9, tag_cap + 1>>, <<8, MaxTags>>}}

\* the orders in which list(all_tags) can yield a set of tags: every order
\* of a set of up to four tags; of a larger one, the ascending and the
\* descending order of 't1', 't2', ... started at any tag
TagOrders ==
    LET up == TagRun(1, MaxTags)
        down == [i \in 1..MaxTags |-> up[MaxTags + 1 - i]]
    IN  {[i \in 1..MaxTags |-> base[((i + r - 1) % MaxTags) + 1]] :
            base \in {up, down}, r \in 0..(MaxTags - 1)}

IterationOrders(S) ==
    IF Cardinality(S) <= 4 THEN SetOrders(S)
    ELSE {OrderOf(o, S) : o \in TagOrders}

\* the tags of the groups merge_duplicates merges
MergedTags(incs) ==
    UNION {SetOf(Get(incs[i], "tags", <<>>)) :
             i \in {k \in 1..Len(incs) :
                      \E m \in 1..Len(incs) :
                          m # k /\ generate_dedup_key(incs[m])
                                      = generate_dedup_key(incs[k])}}

InitMerge ==
    /\ pc = "load"
    /\ source_data \in
           {<<a, b, c, d>> : a \in FileContents(1), b \in FileContents(2),
                             c \in FileContents(3), d \in FileContents(4)}
    /\ src_idx = 1
    /\ all_incidents = <<>>
    /\ merged = <<>>
    /\ inc_idx = 0
    /\ scores = <<>>
    /\ master_file = <<>>
    /\ ts_file = <<>>
    /\ InitGraphIdle
    /\ InitScoreIdle
    /\ InitRunIdle

\* the records of a source that main normalizes before one raises
Normalizable(raw) ==
    LET bad == {n \in 1..Len(raw) : NormalizeRaises(raw[n])}
    IN  IF bad = {} THEN raw
        ELSE SubSeq(raw, 1, (CHOOSE n \in bad : \A m \in bad : n <= m) - 1)

\* a run on a fema_disasters.json of two records with many tags, the other
\* files missing
InitTags ==
    /\ pc = "load"
    /\ source_data \in {<<group, <<>>, <<>>, <<>>>> : group \in ManyTagGroups}
    /\ src_idx = 1
    /\ all_incidents = <<>>
    /\ merged = <<>>
    /\ inc_idx = 0
    /\ scores = <<>>
    /\ master_file = <<>>
    /\ ts_file = <<>>
    /\ InitGraphIdle
    /\ InitScoreIdle
    /\ InitRunIdle

\* one turn of `for source in DATA_SOURCES`
LoadSource ==
    /\ pc = "load"
    /\ src_idx <= Len(DATA_SOURCES)
    /\ Normalizable(source_data[src_idx]) = source_data[src_idx]
    /\ all_incidents' =
           all_incidents
             \o [n \in 1..Len(source_data[src_idx]) |->
                    normalize_incident(source_data[src_idx][n],
                                       DATA_SOURCES[src_idx])]
    /\ src_idx' = src_idx + 1
    /\ UNCHANGED <<pc, source_data, merged, inc_idx, scores, master_file,
                   ts_file, graph_vars, score_vars, run_vars>>

\* the turn in which normalize_incident raises: nothing in main catches the
\* exception, and the script ends with the traceback
LoadAbort ==
    /\ pc = "load"
    /\ src_idx <= Len(DATA_SOURCES)
    /\ Normalizable(source_data[src_idx]) # source_data[src_idx]
    /\ LET raw == Normalizable(source_data[src_idx])
       IN  all_incidents' =
               all_incidents
                 \o [n \in 1..Len(raw) |->
                        normalize_incident(raw[n], DATA_SOURCES[src_idx])]
    /\ pc' = "aborted"
    /\ UNCHANGED <<source_data, src_idx, merged, inc_idx, scores, master_file,
                   ts_file, graph_vars, score_vars, run_vars>>

\* merged = merge_duplicates(all_incidents)
MergeDuplicates ==
    /\ pc = "load"
    /\ src_idx > Len(DATA_SOURCES)
    /\ \E order \in IterationOrders(MergedTags(all_incidents)) :
           merged' = merge_duplicates(all_incidents, order)
    /\ pc' = "sort"
    /\ UNCHANGED <<source_data, src_idx, all_incidents, inc_idx, scores,
                   master_file, ts_file, graph_vars, score_vars, run_vars>>

\* merged.sort(key=lambda x: x.get('date', ''), reverse=True)
SortMerged ==
    /\ pc = "sort"
    /\ merged' = SortByDate(merged)
    /\ pc' = "assign_ids"
    /\ UNCHANGED <<source_data, src_idx, all_incidents, inc_idx, scores,
                   master_file, ts_file, graph_vars, score_vars, run_vars>>

\* the loop that sets inc['id'] = i + 1, and the call of calculate_relations
\* up to its main loop
AssignAndIndex ==
    /\ pc = "assign_ids"
    /\ merged' = AssignIds(merged)
    /\ relations' = <<>>
    /\ inc_idx' = 0
    /\ pc' = "calculate_relations"
    /\ UNCHANGED <<source_data, src_idx, all_incidents, scores, master_file,
                   ts_file, incidents, rel_idx, connection_count,
                   filtered_relations, output_relations, score_vars, run_vars>>

\* one turn of the main loop of calculate_relations
RelateIncident ==
    /\ pc = "calculate_relations"
    /\ inc_idx < Len(merged)
    /\ LET inc == merged[inc_idx + 1]
           scored == ScoresOf(merged, inc)
           top_relations == TopRelations(scored)
       IN  /\ scores' = scored
           /\ merged' = [merged EXCEPT ![inc_idx + 1].relatedIncidents =
                                           RelatedOf(top_relations)]
           /\ relations' = relations \o NewRelations(merged, inc, top_relations)
    /\ inc_idx' = inc_idx + 1
    /\ UNCHANGED <<pc, source_data, src_idx, all_incidents, master_file,
                   ts_file, incidents, rel_idx, connection_count,
                   filtered_relations, output_relations, score_vars, run_vars>>

\* return relations, and json.dump of the master file
WriteMaster ==
    /\ pc = "calculate_relations"
    /\ inc_idx = Len(merged)
    /\ master_file' = [incidents |-> merged, relations |-> relations]
    /\ pc' = "write_ts"
    /\ UNCHANGED <<source_data, src_idx, all_incidents, merged, inc_idx,
                   scores, ts_file, graph_vars, score_vars, run_vars>>

\* the TypeScript file, from the cleaned records
WriteTypeScript ==
    /\ pc = "write_ts"
    /\ ts_file' = [incidents |-> [i \in 1..Len(merged) |-> Clean(merged[i])],
                   relations |-> relations]
    /\ pc' = "done"
    /\ UNCHANGED <<source_data, src_idx, all_incidents, merged, inc_idx,
                   scores, master_file, graph_vars, score_vars, run_vars>>

NextMerge ==
    \/ LoadSource
    \/ LoadAbort
    \/ MergeDuplicates
    \/ SortMerged
    \/ AssignAndIndex
    \/ RelateIncident
    \/ WriteMaster
    \/ WriteTypeScript

SpecMerge == InitMerge /\ [][NextMerge]_vars

InitMergeTags == InitMerge \/ InitTags

SpecMergeTags == InitMergeTags /\ [][NextMerge]_vars

----------------------------------------------------------------------------
(* Properties of the merge pipeline *)

\* calculate_relations has gone through every incident
Related == pc \in {"write_ts", "done"}

\* C3: relatedIncidents is symmetric in the corpus the merge pipeline
\* produces: after calculate_relations has run, if A lists B then B lists A.
RelatedSymmetric ==
    Related =>
        \A i, j \in 1..Len(merged) :
            (merged[j].id \in SetOf(merged[i].relatedIncidents))
            => (merged[i].id \in SetOf(merged[j].relatedIncidents))

\* the incident calculate_relations scored last, and its n-th partner
Scored == pc = "calculate_relations" /\ inc_idx > 0
ScoredInc == merged[inc_idx]
Partner(n) == merged[scores[n][1]]

\* the weight the year index gives a partner: its year must parse, the
\* incident's own year is 2000 when it does not
IndexedYearWeight(inc, other) ==
    IF ~YearParses(other) THEN 0
    ELSE LET year == IF YearParses(inc) THEN YearOf(inc) ELSE 2000
             year_diff == Abs(YearOf(other) - year)
         IN  IF year_diff = 0 THEN 3
             ELSE IF year_diff = 1 THEN 2
             ELSE IF year_diff = 2 THEN 1
             ELSE 0

\* the pairs of equal entries of the two tag lists
TagPairs(inc, other) ==
    Cardinality({p \in (DOMAIN inc.tags) \X (DOMAIN other.tags) :
                    inc.tags[p[1]] = other.tags[p[2]]})

NoRepeats(l) == Cardinality(SetOf(l)) = Len(l)

DistinctKeys(incs) ==
    LET keys == [n \in 1..Len(incs) |-> generate_dedup_key(incs[n])]
    IN  \A m, k \in 1..Len(incs) : m # k => keys[m] # keys[k]

\* C10: Dedup idempotence.  merge_duplicates returns a corpus of distinct
\* keys as it is, records and order, so that numbering it gives the same
\* ids; in particular it returns its own output as it is, before and after
\* the sort by date, in whatever order the tag sets of the groups it
\* merges come.
DedupIdempotence ==
    /\ (pc = "sort" /\ DistinctKeys(all_incidents)) => merged = all_incidents
    /\ pc # "load" => DistinctKeys(merged)
    /\ pc \in {"sort", "assign_ids"} =>
           \A order \in SetOrders(MergedTags(merged)) :
               LET again == merge_duplicates(merged, order)
               IN  /\ again = merged
                   /\ AssignIds(again) = AssignIds(merged)

DedupIdempotenceWitness ==
    /\ pc = "sort"
    /\ Len(merged) >= 2
    /\ Len(merged) < Len(all_incidents)
    /\ \E i \in 1..Len(merged) : Len(merged[i].tags) >= 2

\* the urls of a record's sources
Urls(inc) == {inc.sources[n].url : n \in DOMAIN inc.sources}

NoRepeatedUrl(inc) ==
    \A m, n \in DOMAIN inc.sources :
        inc.sources[m].url = inc.sources[n].url => m = n

\* two records agree on date[:10], on the first 30 characters of the
\* lower-cased location, on category, and on the coordinates rounded to one
\* decimal (or both lack coordinates)
SameComponents(a, b) ==
    /\ Prefix(a.date, 10) = Prefix(b.date, 10)
    /\ Prefix(lower(a.location), 30) = Prefix(lower(b.location), 30)
    /\ a.category = b.category
    /\ IF Truthy(a.coordinates) /\ Truthy(b.coordinates)
       THEN /\ Round1(a.coordinates.lat) = Round1(b.coordinates.lat)
            /\ Round1(a.coordinates.lng) = Round1(b.coordinates.lng)
       ELSE ~Truthy(a.coordinates) /\ ~Truthy(b.coordinates)

\* C11: Dedup by key.  Normalized records that agree on the four components
\* of the key are collapsed into exactly one survivor, which holds the urls
\* of each of them with no url repeated, and records that differ in a
\* component are never merged: every normalized record has exactly one
\* record of the merged corpus that agrees with it.
DedupByKey ==
    pc = "sort" =>
        \A i \in 1..Len(all_incidents) :
            LET ks == {k \in 1..Len(merged) :
                          SameComponents(all_incidents[i], merged[k])}
            IN  /\ Cardinality(ks) = 1
                /\ \A k \in ks :
                       /\ Urls(all_incidents[i]) \subseteq Urls(merged[k])
                       /\ (\E j \in 1..Len(all_incidents) :
                              j # i /\ SameComponents(all_incidents[i],
                                                      all_incidents[j]))
                          => NoRepeatedUrl(merged[k])

\* C12: No duplicates.  In every record merge_duplicates returns, a group of
\* one as well as the survivor of a merge, no tag is repeated in tags and no
\* two entries of sources have the same url.
NoDuplicates ==
    pc = "sort" =>
        \A k \in 1..Len(merged) :
            NoRepeats(merged[k].tags) /\ NoRepeatedUrl(merged[k])

\* the half of C12 that holds: the survivors of groups of two or more
NoDuplicatesInMerged ==
    pc = "sort" =>
        \A k \in 1..Len(merged) :
            (\E i, j \in 1..Len(all_incidents) :
                /\ i # j
                /\ generate_dedup_key(all_incidents[i])
                       = generate_dedup_key(merged[k])
                /\ generate_dedup_key(all_incidents[j])
                       = generate_dedup_key(merged[k]))
            => NoRepeats(merged[k].tags) /\ NoRepeatedUrl(merged[k])

\* the members of the group merged[k] stands for, in the order met
Bucket(k) ==
    SelectSeq(all_incidents,
              LAMBDA inc : generate_dedup_key(inc)
                               = generate_dedup_key(merged[k]))

\* the entries of a list of sources whose url no earlier entry has
KeepFirst(all) ==
    LET firsts == {n \in DOMAIN all :
                      \A m \in 1..(n - 1) : all[m].url # all[n].url}
    IN  [k \in 1..Cardinality(firsts) |->
            all[CHOOSE n \in firsts :
                    Cardinality({m \in firsts : m <= n}) = k]]

\* C13: Source union.  The survivor of a group of two or more has for
\* sources the members' sources, concatenated in the order the members were
\* met, less every entry whose url an earlier entry has, so that each url of
\* a member appears exactly once; and every record of the merged corpus is a
\* record of the input but for its sources and tags.
SourceUnion ==
    pc = "sort" =>
        \A k \in 1..Len(merged) :
            LET group == Bucket(k)
                all == Concat([n \in 1..Len(group) |-> group[n].sources])
            IN  /\ Len(group) >= 1
                /\ \E n \in 1..Len(group) :
                       /\ DOMAIN group[n] = DOMAIN merged[k]
                       /\ \A f \in DOMAIN merged[k] \ {"sources", "tags"} :
                              group[n][f] = merged[k][f]
                /\ Len(group) >= 2 =>
                       /\ merged[k].sources = KeepFirst(all)
                       /\ \A n \in DOMAIN all :
                              Cardinality({m \in DOMAIN merged[k].sources :
                                  merged[k].sources[m].url = all[n].url}) = 1

SourceUnionWitness ==
    /\ pc = "sort"
    /\ \E k \in 1..Len(merged) :
           /\ Len(Bucket(k)) >= 2
           /\ Len(merged[k].sources) >= 2
           /\ \E n \in 1..Len(Bucket(k)) :
                  Len(Bucket(k)[n].sources) < Len(merged[k].sources)
           /\ \E n \in 1..Len(Bucket(k)) :
                  Bucket(k)[n].sources # <<>>
                  /\ Bucket(k)[n].sources[1].url # merged[k].sources[1].url

\* the ids of a list of records are 1..N in list order
DenseIds(incs) == \A i \in 1..Len(incs) : incs[i].id = i

\* C14: Dense ids assigned last.  No record has an id before the merged
\* corpus is sorted by date; from then on, and in both files written, the
\* ids are 1..N in list order, the list is still in descending order of
\* date, and every id calculate_relations scores is the position of the
\* record that carries it.
DenseIdsAssignedLast ==
    /\ \A i \in 1..Len(all_incidents) : all_incidents[i].id = 0
    /\ pc \in {"load", "sort", "assign_ids"} =>
           \A i \in 1..Len(merged) : merged[i].id = 0
    /\ pc \in {"calculate_relations", "write_ts", "done"} =>
           /\ DenseIds(merged)
           /\ \A i, j \in 1..Len(merged) :
                  i < j => ~StrLess(merged[i].date, merged[j].date)
           /\ \A n \in 1..Len(relations) :
                  /\ relations[n].from \in 1..Len(merged)
                  /\ relations[n].to \in 1..Len(merged)
    /\ Scored =>
           \A n \in 1..Len(scores) :
               /\ scores[n][1] \in 1..Len(merged)
               /\ merged[scores[n][1]].id = scores[n][1]
    /\ pc \in {"write_ts", "done"} => DenseIds(master_file.incidents)
    /\ pc = "done" => DenseIds(ts_file.incidents)

DenseIdsWitness ==
    /\ pc = "done"
    /\ Len(ts_file.incidents) >= 3
    /\ Len(merged) < Len(all_incidents)
    /\ Len(relations) >= 1

\* the raw records of all the source files
RawCount ==
    Len(source_data[1]) + Len(source_data[2]) + Len(source_data[3])
        + Len(source_data[4])

\* C15: No fatal errors in the core.  Whatever the raw records hold, missing
\* fields and null fields included, the script never ends on an exception,
\* and every raw record has its normalized record once the sources are loaded.
NoFatalErrors ==
    /\ pc # "aborted"
    /\ pc \notin {"load", "aborted"} => Len(all_incidents) = RawCount

\* the half of C15 that holds: records whose summary and description are
\* strings or missing are each normalized and the run goes on
NoFatalErrorsWithoutNull ==
    (\A s \in 1..4 : \A n \in 1..Len(source_data[s]) :
         ~NormalizeRaises(source_data[s][n]))
    => /\ pc # "aborted"
       /\ pc \notin {"load", "aborted"} => Len(all_incidents) = RawCount

\* the raw records in the order main reads them
RawRecords ==
    source_data[1] \o source_data[2] \o source_data[3] \o source_data[4]

\* the fields of a record that hold lists
SequenceFields == {"timeline", "theories", "tags", "sources", "images"}

\* the defaults of category, status and the list fields in the record
\* normalize_incident returned for raw
DefaultsFilled(raw, normalized) ==
    /\ "category" \notin DOMAIN raw => normalized.category = disaster
    /\ "status" \notin DOMAIN raw => normalized.status = resolved
    /\ \A f \in SequenceFields \ DOMAIN raw : normalized[f] = <<>>
    /\ normalized.relatedIncidents = <<>>

FileConfined(file) ==
    file # <<>> =>
        \A i \in 1..Len(file.incidents) :
            DOMAIN file.incidents[i] \cap InternalKeys = {}

\* C17: Provenance confinement.  No incident record written to the master
\* JSON file or to the TypeScript data file carries _source or _originalId.
ProvenanceConfined ==
    /\ FileConfined(master_file)
    /\ FileConfined(ts_file)

\* the half of C17 that holds: the records of the TypeScript file carry
\* neither key, and are the merged records otherwise
TypeScriptConfined ==
    /\ FileConfined(ts_file)
    /\ pc = "done" =>
          /\ Len(ts_file.incidents) = Len(merged)
          /\ \A i \in 1..Len(merged) :
                \A k \in DOMAIN merged[i] \ InternalKeys :
                    ts_file.incidents[i][k] = merged[i][k]

\* the keys of an entry of an emitted relation list
EdgeKeys == {"from", "to", "relation"}

\* out is the list of the edges of some entries of rels, in the order of rels
RECURSIVE Embeds(_, _)
Embeds(out, rels) ==
    IF Len(out) = 0 THEN TRUE
    ELSE IF Len(rels) = 0 THEN FALSE
    ELSE IF Edge(Head(rels)) = Head(out) THEN Embeds(Tail(out), Tail(rels))
    ELSE Embeds(out, Tail(rels))

NonIncreasingScore(rels) ==
    \A m, n \in 1..Len(rels) : m < n => rels[m].score >= rels[n].score

\* the list generate_relations returns: three keys an entry, and the entries
\* follow the scored list, which is sorted by descending score
GraphListShape ==
    pc \in {"update_related_incidents", "written"} =>
        /\ \A n \in 1..Len(output_relations) :
               DOMAIN output_relations[n] = EdgeKeys
        /\ Embeds(output_relations, relations)
        /\ NonIncreasingScore(relations)

\* the list of a written file of the merge pipeline has three keys an entry
MergeListKeys(file) ==
    file # <<>> =>
        \A n \in 1..Len(file.relations) : DOMAIN file.relations[n] = EdgeKeys

\* the list calculate_relations returned is in non-increasing order of score
MergeListOrder ==
    pc \in {"write_ts", "done"} => NonIncreasingScore(relations)

\* C18: Relation list shape and order.  Every entry of an emitted relation
\* list has exactly the keys from, to and relation, and the entries are in
\* non-increasing order of the pair's score, in generate_relations and in
\* the list the merge pipeline writes.
RelationListShape ==
    /\ GraphListShape
    /\ MergeListKeys(master_file)
    /\ MergeListKeys(ts_file)
    /\ MergeListOrder

\* no two edges of the list join the same two ids
OncePerPair(rels) ==
    \A m, n \in 1..Len(rels) :
        {rels[m].from, rels[m].to} = {rels[n].from, rels[n].to} => m = n

\* the incidents are listed by ascending id
AscendingIds(incs) ==
    \A m, n \in 1..Len(incs) : m < n => incs[m].id < incs[n].id

\* C19: Canonical edges.  For a corpus with unique ids, in any list order,
\* every edge generate_relations returns has from < to, and no unordered pair
\* of ids is in more than one edge.
CanonicalEdges ==
    (pc \in {"update_related_incidents", "written"} /\ UniqueIds(incidents)) =>
        /\ \A n \in 1..Len(output_relations) :
               output_relations[n].from < output_relations[n].to
        /\ OncePerPair(output_relations)

\* the part of C19 that holds: one edge a pair for unique ids, and from < to
\* when the list is in ascending order of id
CanonicalEdgesAscending ==
    (pc \in {"update_related_incidents", "written"} /\ UniqueIds(incidents)) =>
        /\ OncePerPair(output_relations)
        /\ AscendingIds(incidents) =>
               \A n \in 1..Len(output_relations) :
                   output_relations[n].from < output_relations[n].to

----------------------------------------------------------------------------
(* The two scripts side by side: a run of either *)

InitPipelines == Init \/ InitMerge

NextPipelines == Next \/ NextMerge

SpecPipelines == InitPipelines /\ [][NextPipelines]_vars

\* a written file of the merge pipeline holds n incidents and no relation,
\* and no incident of it has a related incident
FileBare(file, n) ==
    /\ file # <<>>
    /\ Len(file.incidents) = n
    /\ Len(file.relations) = 0
    /\ \A i \in 1..n : Len(file.incidents[i].relatedIncidents) = 0

\* C20: Boundary corpora.  An empty corpus gives an empty merged corpus and
\* an empty relation list, and no run on it ends in an error; a corpus of
\* one incident gives no edge and an empty relatedIncidents for the incident.
\* In generate_relations.py and in the merge pipeline alike.
BoundaryCorpora ==
    /\ (pc = "written" /\ Len(incidents) <= 1) =>
          /\ Len(relations) = 0
          /\ Len(output_relations) = 0
          /\ \A i \in 1..Len(incidents) :
                Len(incidents[i].relatedIncidents) = 0
    /\ (pc \in {"load", "aborted"} /\ RawCount = 0) => pc # "aborted"
    /\ (pc = "done" /\ RawCount = 0) => Len(merged) = 0
    /\ (pc = "done" /\ Len(merged) <= 1) =>
          /\ Len(relations) = 0
          /\ \A i \in 1..Len(merged) : Len(merged[i].relatedIncidents) = 0
          /\ FileBare(master_file, Len(merged))
          /\ FileBare(ts_file, Len(merged))

\* generate_relations.py has written the corpus of the one record that came
\* with two related incidents, and the list is now empty
BoundaryCorporaWitness ==
    /\ pc = "written"
    /\ Len(incidents) = 1
    /\ incidents[1].location = seoul
    /\ Len(incidents[1].relatedIncidents) = 0
    /\ Len(output_relations) = 0

\* the merge pipeline has finished on four empty sources
EmptyMergeWitness ==
    /\ pc = "done"
    /\ RawCount = 0
    /\ FileBare(ts_file, 0)

\* the merge pipeline has finished on a corpus of one incident merged from
\* two raw records
SingleMergeWitness ==
    /\ pc = "done"
    /\ Len(merged) = 1
    /\ RawCount = 2
    /\ FileBare(master_file, 1)

----------------------------------------------------------------------------
(* Labels of the scorer *)

\* one of the four special patterns matches the two incidents
SpecialPattern(inc1, inc2) ==
    \/ NuclearPattern(inc1, inc2)
    \/ AviationPattern(inc1, inc2)
    \/ MaritimePattern(inc1, inc2)
    \/ SerialPattern(inc1, inc2)

\* label is what the last signal that added to the score appends, the rules
\* taken from the last one back: casualty scale, shared tags, temporal
\* proximity, region, category
LastSignalLabel(inc1, inc2, label) ==
    IF CasualtySignal(inc1, inc2).score > 0 THEN label = similar_scale_label
    ELSE IF CommonTags(inc1, inc2) # {}
    THEN /\ Prefix(label, Len(common_tags_label)) = common_tags_label
         /\ Len(label) > Len(common_tags_label)
    ELSE IF TemporalSignal(inc1, inc2).score = 2
    THEN label = contemporaneous_label
    ELSE IF TemporalSignal(inc1, inc2).score = 1
    THEN label = similar_period_label
    ELSE IF RegionSignal(inc1, inc2).score > 0
    THEN label = same_region_label \o Region(inc1.location)
    ELSE IF inc1.category = inc2.category
    THEN label = same_type_label \o category_name(inc1.category)
    ELSE label = default_label

DefaultLabelWitness ==
    /\ pc = "scored"
    /\ forward.score = 0
    /\ forward.relation = default_label

\* the sum of the five standard signals
StandardScore(inc1, inc2) ==
    CategorySignal(inc1, inc2).score + RegionSignal(inc1, inc2).score
        + TemporalSignal(inc1, inc2).score + Cardinality(CommonTags(inc1, inc2))
        + CasualtySignal(inc1, inc2).score

\* what the matching special patterns add
SpecialDelta(inc1, inc2) ==
    (IF NuclearPattern(inc1, inc2) THEN 2 ELSE 0)
        + (IF AviationPattern(inc1, inc2) THEN 2 ELSE 0)
        + (IF MaritimePattern(inc1, inc2) THEN 2 ELSE 0)
        + (IF SerialPattern(inc1, inc2) THEN 3 ELSE 0)

\* the label of the last matching pattern in the order nuclear, aviation,
\* maritime, serial killing
LastPatternLabel(inc1, inc2) ==
    IF SerialPattern(inc1, inc2) THEN serial_label
    ELSE IF MaritimePattern(inc1, inc2) THEN maritime_label
    ELSE IF AviationPattern(inc1, inc2) THEN aviation_label
    ELSE nuclear_label

SpecialResult(inc1, inc2, result) ==
    /\ SpecialPattern(inc1, inc2) =>
           result.relation = LastPatternLabel(inc1, inc2)
    /\ result.score = StandardScore(inc1, inc2) + SpecialDelta(inc1, inc2)

\* C22: Special patterns.  When special patterns match both incidents the
\* label is that of the last matching pattern in the order nuclear, aviation,
\* maritime, serial killing, whatever standard labels were gathered, and the
\* score is the standard sum plus 2 for each matching pattern, 3 for the
\* serial-killing one.
SpecialPatterns ==
    /\ pc # "score" => SpecialResult(pair[1], pair[2], forward)
    /\ pc = "scored" => SpecialResult(pair[2], pair[1], backward)

\* two patterns match a pair that also has standard signals: the label is
\* the later pattern's, the score holds both deltas and the standard sum
SpecialPatternsWitness ==
    /\ pc = "scored"
    /\ MaritimePattern(pair[1], pair[2])
    /\ SerialPattern(pair[1], pair[2])
    /\ StandardScore(pair[1], pair[2]) >= 5
    /\ forward.relation = serial_label
    /\ forward.score = StandardScore(pair[1], pair[2]) + 5

\* the nuclear and the aviation pattern match: the label is the aviation one
AviationOverNuclearWitness ==
    /\ pc = "scored"
    /\ NuclearPattern(pair[1], pair[2])
    /\ AviationPattern(pair[1], pair[2])
    /\ forward.relation = aviation_label

----------------------------------------------------------------------------
(* The survivor of a bucket *)

\* (description length, tag count, has coordinates, has casualties) of a
\* normalized record
RankTuple(x) ==
    <<Len(x.description), Len(x.tags),
      IF x.coordinates = None THEN 0 ELSE 1,
      IF x.casualties = None \/ DOMAIN x.casualties = {} THEN 0 ELSE 1>>

\* a is lexicographically greater than b
Outranks(a, b) ==
    \E n \in 1..4 : a[n] > b[n] /\ \A m \in 1..(n - 1) : a[m] = b[m]

\* the position in group of the first member that no member outranks
Selected(group) ==
    CHOOSE n \in 1..Len(group) :
        /\ \A m \in 1..Len(group) :
               ~Outranks(RankTuple(group[m]), RankTuple(group[n]))
        /\ \A m \in 1..(n - 1) :
               Outranks(RankTuple(group[n]), RankTuple(group[m]))

\* survivor is the record member, sources and tags apart
KeptMember(survivor, member) ==
    /\ DOMAIN survivor = DOMAIN member
    /\ \A f \in DOMAIN survivor \ {"sources", "tags"} :
           survivor[f] = member[f]

\* C23: Survivor selection.  In every bucket of two or more members,
\* merge_duplicates keeps the member whose tuple (description length, tag
\* count, has coordinates, has casualties) is lexicographically greatest,
\* and of the members with that tuple the one met first in the input.
SurvivorSelection ==
    pc = "sort" =>
        \A k \in 1..Len(merged) :
            LET group == Bucket(k)
            IN  Len(group) >= 2 =>
                    KeptMember(merged[k], group[Selected(group)])

\* one bucket is won by its second member on the last component of the
\* tuple, another by the first of two different members with equal tuples
SurvivorSelectionWitness ==
    /\ pc = "sort"
    /\ \E k \in 1..Len(merged) :
           LET group == Bucket(k)
           IN  /\ Len(group) = 2
               /\ Outranks(RankTuple(group[2]), RankTuple(group[1]))
               /\ RankTuple(group[2])[1] = RankTuple(group[1])[1]
               /\ RankTuple(group[2])[3] = RankTuple(group[1])[3]
               /\ merged[k].title = group[2].title
               /\ merged[k].title # group[1].title
    /\ \E k \in 1..Len(merged) :
           LET group == Bucket(k)
           IN  /\ Len(group) = 2
               /\ RankTuple(group[2]) = RankTuple(group[1])
               /\ group[1].title # group[2].title
               /\ merged[k].title = group[1].title

----------------------------------------------------------------------------
(* parse_year on its own, next to the runs of generate_relations.py *)

MaxDateLen == 4   \* longest made-up date string given to parse_year

\* the characters of the made-up date strings: the separator, two digits and
\* a letter
DateAlphabet == {"-", "0", "2", "x"}

\* the dates of the corpora, and every string of DateAlphabet up to MaxDateLen
DateStrings ==
    Dates \cup UNION {[1..n -> DateAlphabet] : n \in 0..MaxDateLen}

InitYear ==
    /\ pc = "parse_year"
    /\ parsed_date \in DateStrings
    /\ parsed_year = 0
    /\ pair = <<>>
    /\ forward = <<>>
    /\ backward = <<>>
    /\ InitGraphIdle
    /\ InitMergeIdle
    /\ InitRunIdle

\* year1 = parse_year(inc1.get('date', ''))
ParseYear ==
    /\ pc = "parse_year"
    /\ parsed_year' = parse_year(parsed_date)
    /\ pc' = "parsed"
    /\ UNCHANGED <<parsed_date, pair, forward, backward, graph_vars, merge_vars,
                   run_vars>>

InitDates == Init \/ InitYear

NextDates == Next \/ ParseYear

SpecDates == InitDates /\ [][NextDates]_vars

\* the part of a date string that holds the year: what lies between a
\* leading '-' and the next '-', or before the first '-'
YearField(s) ==
    LET from == IF Len(s) > 0 /\ s[1] = "-" THEN 2 ELSE 1
        dashes == {n \in from..Len(s) : s[n] = "-"}
        to == IF dashes = {} THEN Len(s)
              ELSE (CHOOSE n \in dashes : \A m \in dashes : n <= m) - 1
    IN  SubSeq(s, from, to)

\* a string int() takes for a number: digits, at least one
IsNumber(s) == Len(s) > 0 /\ \A n \in 1..Len(s) : IsDigit(s[n])

\* parse_year returned for s what the three cases say
YearAsParsed(s, y) ==
    IF ~IsNumber(YearField(s)) THEN y = 2000
    ELSE IF s[1] = "-" THEN y = -NatOf(YearField(s))
    ELSE y = NatOf(YearField(s))

\* a step leaves the date of every incident of the corpus as it is
DatesKept ==
    /\ Len(incidents') = Len(incidents)
    /\ \A i \in 1..Len(incidents) : incidents'[i].date = incidents[i].date
    /\ parsed_date' = parsed_date

\* C24: Unparseable dates.  parse_year returns 2000 for a string it cannot
\* parse, the empty string included, the negated year for a string with a
\* leading '-', and otherwise the integer before the first '-'; and no step
\* of generate_relations.py changes the date of an incident, so that the
\* string read is the string written.
UnparseableDates ==
    /\ [](pc = "parsed" => YearAsParsed(parsed_date, parsed_year))
    /\ [][DatesKept]_vars

\* parse_year has returned -44 for the date '-0044-03-15'
UnparseableDatesWitness ==
    /\ pc = "parsed"
    /\ parsed_date = date_bce
    /\ parsed_year = -44

\* parse_year has returned 2000 for the empty string and for a string with
\* a letter in the year, and for a string with two leading '-'
FallbackYearWitness ==
    /\ pc = "parsed"
    /\ parsed_date \in {<<>>, <<"2", "x", "-", "0">>, <<"-", "-", "2">>}
    /\ parsed_year = 2000

----------------------------------------------------------------------------
(* The tags of a survivor *)

\* the tags of all the members of a group
TagUnion(group) == UNION {SetOf(group[n].tags) : n \in 1..Len(group)}

\* C25: Tag union with cap.  For every bucket of two or more members, the
\* survivor's tags after merge_duplicates are at most 15, each of them a tag
\* of some member, and they are the whole union of the members' tags when
\* the union has 15 tags or fewer.
TagUnionCapped ==
    pc = "sort" =>
        \A k \in 1..Len(merged) :
            LET group == Bucket(k)
                union == TagUnion(group)
            IN  Len(group) >= 2 =>
                    /\ Len(merged[k].tags) <= 15
                    /\ SetOf(merged[k].tags) \subseteq union
                    /\ Cardinality(union) <= 15 =>
                           SetOf(merged[k].tags) = union

\* a union of more than 15 tags has been cut to 15
TagUnionCappedWitness ==
    /\ pc = "sort"
    /\ Len(merged) = 1
    /\ Cardinality(TagUnion(all_incidents)) > 15
    /\ Len(merged[1].tags) = 15
    /\ Cardinality(SetOf(merged[1].tags)) = 15

\* a union of exactly 15 tags has been kept whole
TagUnionWholeWitness ==
    /\ pc = "sort"
    /\ Len(merged) = 1
    /\ Len(all_incidents) = 2
    /\ Cardinality(TagUnion(all_incidents)) = 15
    /\ SetOf(merged[1].tags) = TagUnion(all_incidents)

----------------------------------------------------------------------------
(* What the greedy pass leaves out *)

\* the greedy loop is over
GreedyDone ==
    \/ pc = "greedy" /\ rel_idx > Len(relations)
    \/ pc \in {"update_related_incidents", "written"}

\* the scored relation rel is among the accepted edges
Accepted(rel) ==
    \E m \in 1..Len(filtered_relations) : filtered_relations[m] = Edge(rel)

GreedyMaximalityUniqueIds ==
    (GreedyDone /\ UniqueIds(incidents)) =>
        \A n \in 1..Len(relations) :
            ~Accepted(relations[n]) =>
                \/ connection_count[relations[n].from] = 5
                \/ connection_count[relations[n].to] = 5

\* and for any corpus, with "at least 5" in place of "exactly 5"
GreedyMaximalityAtLeast ==
    GreedyDone =>
        \A n \in 1..Len(relations) :
            ~Accepted(relations[n]) =>
                \/ connection_count[relations[n].from] >= 5
                \/ connection_count[relations[n].to] >= 5

\* an eligible pair of a corpus with unique ids has been left out
GreedyMaximalityReached ==
    /\ GreedyDone
    /\ UniqueIds(incidents)
    /\ \E n \in 1..Len(relations) : ~Accepted(relations[n])

----------------------------------------------------------------------------
(* The merge partitions the input by key *)

\* the dedup keys of a list of records
KeySet(incs) == {generate_dedup_key(incs[n]) : n \in 1..Len(incs)}

\* C27: Merge partitions by key.  The records merge_duplicates returns have
\* pairwise distinct dedup keys, there are as many of them as there are
\* distinct dedup keys in the input, and each of them is, sources and tags
\* apart, a record of the input whose dedup key it still has.
MergePartition ==
    pc = "sort" =>
        /\ DistinctKeys(merged)
        /\ Len(merged) = Cardinality(KeySet(all_incidents))
        /\ \A k \in 1..Len(merged) :
               \E i \in 1..Len(all_incidents) :
                   /\ KeptMember(merged[k], all_incidents[i])
                   /\ generate_dedup_key(merged[k])
                          = generate_dedup_key(all_incidents[i])

\* three buckets or more, one of which held two records whose tags or
\* sources the merge replaced
MergePartitionWitness ==
    /\ pc = "sort"
    /\ Cardinality(KeySet(all_incidents)) >= 3
    /\ Len(all_incidents) > Cardinality(KeySet(all_incidents))
    /\ \E k \in 1..Len(merged) :
           \A i \in 1..Len(all_incidents) : merged[k] # all_incidents[i]

----------------------------------------------------------------------------
(* What the merge leaves alone *)

\* the records of the input with the dedup key k, in the order met
Members(k) ==
    SelectSeq(all_incidents, LAMBDA inc : generate_dedup_key(inc) = k)

\* the fields in which record a differs from record b
Changed(a, b) ==
    {f \in DOMAIN a \cup DOMAIN b :
        f \notin DOMAIN a \/ f \notin DOMAIN b \/ a[f] # b[f]}

\* C28: Merge frame.  The record merge_duplicates returns for a bucket of
\* two or more differs from the member it selected, as that member was
\* before the merge, in no field but sources and tags, and the record it
\* returns for a bucket of one is that member with every field as it was.
MergeFrame ==
    pc = "sort" =>
        \A k \in 1..Len(merged) :
            LET group == Members(generate_dedup_key(merged[k]))
            IN  IF Len(group) = 1
                THEN Changed(merged[k], group[1]) = {}
                ELSE Changed(merged[k], group[Selected(group)])
                         \subseteq {"sources", "tags"}

\* a bucket of two whose survivor has other sources and other tags than
\* the member selected had, next to a bucket of one that came with a
\* repeated tag
MergeFrameWitness ==
    /\ pc = "sort"
    /\ \E k \in 1..Len(merged) :
           LET group == Members(generate_dedup_key(merged[k]))
           IN  /\ Len(group) = 2
               /\ Changed(merged[k], group[Selected(group)])
                      = {"sources", "tags"}
    /\ \E k \in 1..Len(merged) :
           /\ Len(Members(generate_dedup_key(merged[k]))) = 1
           /\ ~NoRepeats(merged[k].tags)

----------------------------------------------------------------------------
(* The related lists hold no id of their own and no id twice *)

\* the ids an accepted edge joins to id
Partners(id) ==
    {output_relations[n].to :
        n \in {m \in 1..Len(output_relations) : output_relations[m].from = id}}
    \cup
    {output_relations[n].from :
        n \in {m \in 1..Len(output_relations) : output_relations[m].to = id}}

\* C29: No self-links or repeats.  For a corpus with unique ids, once
\* update_related_incidents has run on the edges generate_relations
\* returned, no incident's relatedIncidents holds the incident's own id or
\* an id twice, and the list holds nothing of the value the incident came
\* with: its entries are the other endpoints of the incident's accepted
\* edges, and it is empty for an incident with no accepted edge.
NoSelfLinksOrRepeats ==
    (pc = "written" /\ UniqueIds(incidents)) =>
        \A i \in 1..Len(incidents) :
            LET related == incidents[i].relatedIncidents
            IN  /\ incidents[i].id \notin SetOf(related)
                /\ NoRepeats(related)
                /\ SetOf(related) = Partners(incidents[i].id)
                /\ Partners(incidents[i].id) = {} => related = <<>>

\* the incident with id 1 is the record that came with relatedIncidents
\* [1, 1] and has no accepted edge, next to an incident with two edges or
\* more
NoSelfLinksWitness ==
    /\ pc = "written"
    /\ UniqueIds(incidents)
    /\ \E i \in 1..Len(incidents) :
           /\ incidents[i].id = 1
           /\ incidents[i].location = seoul
           /\ incidents[i].relatedIncidents = <<>>
    /\ \E i \in 1..Len(incidents) : Len(incidents[i].relatedIncidents) >= 2

----------------------------------------------------------------------------
(* run_pipeline.py, main: the steps one after the other *)

InitRun ==
    /\ pc = "run_pipeline"
    /\ args \in CommandLines
    /\ all_steps = <<>>
    /\ step_idx = 0
    /\ ran = <<>>
    /\ exit_code = <<>>
    /\ InitGraphIdle
    /\ InitScoreIdle
    /\ InitMergeIdle

\* main up to the loop: all_steps = collection_steps + merge_steps
ListSteps ==
    /\ pc = "run_pipeline"
    /\ all_steps' = collection_steps(args) \o merge_steps
    /\ step_idx' = 1
    /\ pc' = "steps"
    /\ UNCHANGED <<args, ran, exit_code, graph_vars, score_vars, merge_vars>>

\* a failing step after which the loop goes on to the next script
StepFailsLoopGoesOn ==
    /\ pc = "steps"
    /\ step_idx <= Len(all_steps)
    /\ \E returncode \in ReturnCodes :
           /\ ~run_script(returncode)
           /\ ran' = Append(ran, [script |-> all_steps[step_idx],
                                  returncode |-> returncode])
    /\ step_idx' = step_idx + 1
    /\ UNCHANGED <<pc, args, all_steps, exit_code, graph_vars, score_vars,
                   merge_vars>>

\* one turn of `for script, description in all_steps`, run_script true: the
\* subprocess has run to its end and returned 0
StepSucceeds ==
    /\ pc = "steps"
    /\ step_idx <= Len(all_steps)
    /\ \E returncode \in ReturnCodes :
           /\ run_script(returncode)
           /\ ran' = Append(ran, [script |-> all_steps[step_idx],
                                  returncode |-> returncode])
    /\ step_idx' = step_idx + 1
    /\ UNCHANGED <<pc, args, all_steps, exit_code, graph_vars, score_vars,
                   merge_vars>>

\* one turn of the loop, run_script false: return 1
StepFails ==
    /\ pc = "steps"
    /\ step_idx <= Len(all_steps)
    /\ \E returncode \in ReturnCodes :
           /\ ~run_script(returncode)
           /\ ran' = Append(ran, [script |-> all_steps[step_idx],
                                  returncode |-> returncode])
    /\ exit_code' = <<1>>
    /\ pc' = "returned"
    /\ UNCHANGED <<args, all_steps, step_idx, graph_vars, score_vars,
                   merge_vars>>

\* the loop is through: the summary is printed and main returns 0
PipelineDone ==
    /\ pc = "steps"
    /\ step_idx > Len(all_steps)
    /\ exit_code' = <<0>>
    /\ pc' = "returned"
    /\ UNCHANGED <<args, all_steps, step_idx, ran, graph_vars, score_vars,
                   merge_vars>>

NextRun ==
    \/ ListSteps
    \/ StepSucceeds
    \/ StepFails
    \/ PipelineDone

SpecRun == InitRun /\ [][NextRun]_vars

\* the scripts of a run in the order they were started
Started == [n \in 1..Len(ran) |-> ran[n].script]

\* the steps the command line selects, in the fixed order
SelectedSteps ==
    (IF args.only_merge THEN <<>>
     ELSE (IF args.skip_fema THEN <<>> ELSE <<"fetch_fema.py">>)
          \o (IF args.skip_earthquakes THEN <<>>
              ELSE <<"fetch_earthquakes.py">>)
          \o (IF args.skip_tsunamis THEN <<>> ELSE <<"fetch_tsunamis.py">>)
          \o (IF args.skip_coldcases THEN <<>>
              ELSE <<"fetch_coldcases.py">>))
    \o <<"merge_master_data.py">>

\* what holds of the scripts started so far
StepsInOrder ==
    pc \in {"steps", "returned"} =>
        /\ Len(ran) <= Len(SelectedSteps)
        /\ Started = SubSeq(SelectedSteps, 1, Len(ran))
        /\ \A n \in 1..(Len(ran) - 1) : ran[n].returncode = 0
        /\ (\E n \in 1..Len(ran) : ran[n].returncode # 0)
               => pc = "returned" /\ exit_code = <<1>>
        /\ (\E n \in 1..Len(ran) : ran[n].script = "merge_master_data.py")
               => \A m \in 1..(Len(SelectedSteps) - 1) :
                      /\ ran[m].script = SelectedSteps[m]
                      /\ ran[m].returncode = 0
        /\ args.only_merge
               => \A n \in 1..Len(ran) : ran[n].script = "merge_master_data.py"
        /\ exit_code = <<1>> => ran # <<>> /\ ran[Len(ran)].returncode # 0

\* a script is started only when every script started before it has
\* returned 0, and none once main has returned
StartsAfterSuccess ==
    ran' # ran =>
        /\ pc = "steps"
        /\ Len(ran') = Len(ran) + 1
        /\ SubSeq(ran', 1, Len(ran)) = ran
        /\ \A n \in 1..Len(ran) : ran[n].returncode = 0

\* C30: Pipeline step ordering.  run_pipeline starts the selected collection
\* scripts in the order FEMA, earthquakes, tsunamis, cold cases and then
\* the merge script, each only after the one before returned 0; at the
\* first script that fails it returns 1 and starts no other; so the merge
\* script is started only if every selected collection script returned 0,
\* and with --only-merge it is the only script started.
PipelineStepOrdering == []StepsInOrder /\ [][StartsAfterSuccess]_vars

\* two collection scripts have returned 0 and the third has failed: main
\* has returned 1 with the merge script not started
PipelineStepOrderingWitness ==
    /\ pc = "returned"
    /\ exit_code = <<1>>
    /\ Len(ran) = 3
    /\ Len(SelectedSteps) >= 4
    /\ ran[3].returncode # 0

\* with --only-merge the merge script alone has run, and main has returned 0
OnlyMergeWitness ==
    /\ pc = "returned"
    /\ exit_code = <<0>>
    /\ args.only_merge
    /\ ~args.skip_fema
    /\ Len(ran) = 1

\* every script of a full run has returned 0
FullRunWitness ==
    /\ pc = "returned"
    /\ exit_code = <<0>>
    /\ Len(ran) = 5

=============================================================================
